---- MODULE Spec2Model ----
(***************************************************************************)
(* Model of the shareX relay (src/server.ts, src/socket-server.ts) and of  *)
(* the call-room mesh coordinator (src/src/components/CallRoom.tsx).       *)
(*                                                                         *)
(* Program constants are scaled down so that the caps are reached within   *)
(* the model: each keeps its source name and the comment beside it gives   *)
(* the value in the source.  Text (names, chat text, source code) is a     *)
(* sequence of characters 0..2, character 0 being white space.             *)
(***************************************************************************)
EXTENDS Integers, Sequences, FiniteSets, TLC

\* ------------------------------------------------------------------ bounds
NumSockets == 3          \* connections of the relay model
NumEditors == 2          \* connections that edit, chat and upload
MaxTime    == 2          \* the clock stops advancing here
MaxAccepted == 5         \* chat messages accepted per room before chat stops
MaxCalls   == 3          \* rate-limited calls recorded per window
NumClients == 2          \* connections that run the call-room client
MaxCand    == 3          \* ICE candidates a client sends to one remote
MaxLinks   == 3          \* PeerState objects a client creates
MaxChanges == 7          \* connection state changes a peer connection reports

\* ------------------------------------------------- program constants (scaled)
MAX_FILE_SIZE == 2       \* src/server.ts:13   4 * 1024 * 1024
MAX_CODE_SIZE == 2       \* src/server.ts:14   500 * 1024
MAX_ROOM_SIZE == 2       \* src/server.ts:15   50
LIMIT_CODE_CHANGE == 2   \* src/server.ts:21   10
LIMIT_CHAT_MESSAGE == 2  \* src/server.ts:22   5
LIMIT_CURSOR_MOVE == 2   \* src/server.ts:23   20
RATE_WINDOW == 2         \* src/server.ts:39   1000 (ms)
MAX_NAME_LEN == 2        \* src/server.ts:155  20
MAX_MESSAGE_LEN == 2     \* src/server.ts:320  500
MAX_MESSAGES == 3        \* src/server.ts:324  100
ROOM_DATA_MESSAGES == 2  \* src/server.ts:204  50
CONNECTION_TIMEOUT == 2      \* src/src/components/CallRoom.tsx:57  30000 (ms)
MAX_MESH_PEERS == 1          \* src/src/components/CallRoom.tsx:58  6
DISCONNECT_GRACE_MS == 2     \* src/src/components/CallRoom.tsx:59  5000 (ms)
EVICT_DELAY == 1         \* src/server.ts:601  5 * 60 * 1000 (ms)

Sockets == 1..NumSockets
Editors == 1..NumEditors

RATE_LIMITS ==
  ("code-change" :> LIMIT_CODE_CHANGE) @@ ("chat-message" :> LIMIT_CHAT_MESSAGE)
    @@ ("cursor-move" :> LIMIT_CURSOR_MOVE)

\* ------------------------------------------------------------ pure helpers
Min(a, b) == IF a <= b THEN a ELSE b

\* String.prototype.slice(0, n)
SliceTo(t, n) == SubSeq(t, 1, Min(Len(t), n))

\* Array.prototype.slice(-n)
SliceLast(q, n) == IF Len(q) <= n THEN q ELSE SubSeq(q, Len(q) - n + 1, Len(q))

\* String.prototype.trim() is non-empty: some character is not white space
TrimNonEmpty(t) == \E i \in 1..Len(t) : t[i] # 0

roomKey(roomId, type) == IF type = "code" THEN roomId ELSE roomId \o ":" \o type

\* room.file: null, and the absent field of a room that is not a file room
NoFile == [name |-> "null", size |-> 0]
UndefFile == [name |-> "undefined", size |-> 0]
NoVal  == "undefined"

\* the UserInfo of a new connection: cursor and selection are undefined (0)
NoUserInfo == [cursor |-> 0, selection |-> 0]

\* payloads of the code field: JavaScript values with a typeof and a length
StringPayload(t) == [typ |-> "string", val |-> t]
ArrayPayload(t)  == [typ |-> "object", val |-> t]
InitialCode == StringPayload(<<1>>)

VARIABLES
  rooms,         \* rooms: Map<string, RoomData>, a function on the keys present
  currentRooms,  \* server.ts: per-connection Set of joined keys
  currentRoom,   \* socket-server.ts: per-connection single key or NoVal
  userName,      \* userInfo.name of each connection
  userInfo,      \* userInfo.cursor and userInfo.selection of each connection
  subs,          \* socket.io adapter: the broadcast rooms each socket is in
  conn,          \* TRUE while the connection is open
  rateLimiters,  \* rateLimiters: Map<socketId, Map<event, {count, resetAt}>>
  now,           \* Date.now()
  timers,        \* pending setTimeout eviction callbacks: [key, due]
  emitted,       \* events emitted by the last handler: [to, ev, room]
  lastOp,        \* history: the last handler run and the branch it took
  joinedAs,      \* history: kinds of join accepted on each key since creation
  accepted,      \* history: chat messages accepted on each key since creation
  calls          \* history: results of checkRateLimit in the running window

relayVars == <<rooms, currentRooms, currentRoom, userName, userInfo, subs, conn,
               rateLimiters, now, timers, emitted, lastOp, joinedAs, accepted,
               calls>>

\* state of the call-room clients (CallRoom.tsx), one entry per client
VARIABLES
  joinedCall,    \* init has run and join-call-room is emitted
  mediaOk,       \* getUserMedia resolves (TRUE) or rejects (FALSE)
  localStream,   \* localStreamRef.current is set
  userInfoRef,   \* userInfoRef.current: the own socket id, 0 while null
  heap,          \* the PeerState objects created, in creation order
  peersRef,      \* peersRef.current: remote id -> index of its object in heap
  inbox,         \* socket events delivered and not yet handled
  tasks,         \* handlers suspended at an await
  sent,          \* ICE candidates emitted so far, per remote
  received,      \* history: candidates received, per remote
  applied,       \* history: candidates handed to addIceCandidate, per remote
  offers,        \* history: offers emitted by membership processing, per remote
  disconnectGraceTimers, \* disconnectGraceTimers.current and the armed grace timers
  mountedRef     \* mountedRef.current

meshVars == <<joinedCall, mediaOk, localStream, userInfoRef, heap, peersRef, inbox,
              tasks, sent, received, applied, offers, disconnectGraceTimers,
              mountedRef>>

vars == <<relayVars, meshVars>>

RelayInit ==
  /\ rooms = <<>>
  /\ currentRooms = [s \in Sockets |-> {}]
  /\ currentRoom = [s \in Sockets |-> NoVal]
  /\ userName = [s \in Sockets |-> <<1, 2>>]
  /\ userInfo = [s \in Sockets |-> NoUserInfo]
  /\ subs = [s \in Sockets |-> {}]
  /\ conn = [s \in Sockets |-> TRUE]
  /\ rateLimiters = <<>>
  /\ now = 0
  /\ timers = {}
  /\ emitted = {}
  /\ lastOp = "none"
  /\ joinedAs = <<>>
  /\ accepted = <<>>
  /\ calls = <<>>


\* ------------------------------------------------------- socket.io emission
\* socket.emit(ev): to the sender alone
ToSender(s, ev, key) == {[to |-> s, ev |-> ev, room |-> key]}

\* socket.to(key).emit(ev): every socket in broadcast room key but the sender
ToOthers(sb, s, ev, key) ==
  {[to |-> t, ev |-> ev, room |-> key] :
      t \in {u \in Sockets : key \in sb[u] /\ u # s}}

\* io.to(key).emit(ev): every socket in broadcast room key
ToAll(sb, s, ev, key) ==
  {[to |-> t, ev |-> ev, room |-> key] :
      t \in {u \in Sockets : key \in sb[u]}}

RemoveKey(f, key) == [k \in DOMAIN f \ {key} |-> f[k]]

\* ------------------------------------------------------------ rate limiter
\* variant: the limit test is count > limit
checkRateLimitStrict(rl, socketId, event, t) ==
  LET limit == RATE_LIMITS[event]
      rl1 == IF socketId \in DOMAIN rl THEN rl ELSE rl @@ (socketId :> <<>>)
      socketLimits == rl1[socketId]
      fresh == [count |-> 1, resetAt |-> t + RATE_WINDOW]
  IN IF event \notin DOMAIN socketLimits
     THEN [ok |-> TRUE,
           rl |-> [rl1 EXCEPT ![socketId] = socketLimits @@ (event :> fresh)]]
     ELSE IF t >= socketLimits[event].resetAt
     THEN [ok |-> TRUE, rl |-> [rl1 EXCEPT ![socketId][event] = fresh]]
     ELSE IF socketLimits[event].count > limit
     THEN [ok |-> FALSE, rl |-> rl1]
     ELSE [ok |-> TRUE, rl |-> [rl1 EXCEPT ![socketId][event].count = @ + 1]]

\* variant: a denied call is counted too
checkRateLimitCounting(rl, socketId, event, t) ==
  LET limit == RATE_LIMITS[event]
      rl1 == IF socketId \in DOMAIN rl THEN rl ELSE rl @@ (socketId :> <<>>)
      socketLimits == rl1[socketId]
      fresh == [count |-> 1, resetAt |-> t + RATE_WINDOW]
  IN IF event \notin DOMAIN socketLimits
     THEN [ok |-> TRUE,
           rl |-> [rl1 EXCEPT ![socketId] = socketLimits @@ (event :> fresh)]]
     ELSE IF t >= socketLimits[event].resetAt
     THEN [ok |-> TRUE, rl |-> [rl1 EXCEPT ![socketId][event] = fresh]]
     ELSE [ok |-> socketLimits[event].count < limit,
           rl |-> [rl1 EXCEPT ![socketId][event].count = @ + 1]]

\* variant: a new window of one kind restarts every kind of the connection
checkRateLimitOneWindow(rl, socketId, event, t) ==
  LET limit == RATE_LIMITS[event]
      rl1 == IF socketId \in DOMAIN rl THEN rl ELSE rl @@ (socketId :> <<>>)
      socketLimits == rl1[socketId]
      fresh == [count |-> 1, resetAt |-> t + RATE_WINDOW]
      restart == [e \in DOMAIN socketLimits \cup {event} |-> fresh]
  IN IF event \notin DOMAIN socketLimits
     THEN [ok |-> TRUE, rl |-> [rl1 EXCEPT ![socketId] = restart]]
     ELSE IF t >= socketLimits[event].resetAt
     THEN [ok |-> TRUE, rl |-> [rl1 EXCEPT ![socketId] = restart]]
     ELSE IF socketLimits[event].count >= limit
     THEN [ok |-> FALSE, rl |-> rl1]
     ELSE [ok |-> TRUE, rl |-> [rl1 EXCEPT ![socketId][event].count = @ + 1]]

\* checkRateLimit(socketId, event) at time t on limiter table rl:
\* the returned boolean and the table it leaves behind
checkRateLimit(rl, socketId, event, t) ==
  IF event \notin DOMAIN RATE_LIMITS
  THEN [ok |-> TRUE, rl |-> rl]
  ELSE
    LET limit == RATE_LIMITS[event]
        rl1 == IF socketId \in DOMAIN rl THEN rl ELSE rl @@ (socketId :> <<>>)
        socketLimits == rl1[socketId]
        fresh == [count |-> 1, resetAt |-> t + RATE_WINDOW]
    IN IF event \notin DOMAIN socketLimits
       THEN [ok |-> TRUE,
             rl |-> [rl1 EXCEPT ![socketId] = socketLimits @@ (event :> fresh)]]
       ELSE IF t >= socketLimits[event].resetAt
       THEN [ok |-> TRUE, rl |-> [rl1 EXCEPT ![socketId][event] = fresh]]
       ELSE IF socketLimits[event].count >= limit
       THEN [ok |-> FALSE, rl |-> rl1]
       ELSE [ok |-> TRUE, rl |-> [rl1 EXCEPT ![socketId][event].count = @ + 1]]

\* History of checkRateLimit: for each connection and event kind, the time of
\* the first call of the running one-window span and the booleans returned
\* since.  A call at or after start + RATE_WINDOW, or with no span, opens one.
NoteCall(cl, socketId, event, t, ok) ==
  LET cl1 == IF socketId \in DOMAIN cl THEN cl ELSE cl @@ (socketId :> <<>>)
      fresh == [start |-> t, results |-> <<ok>>]
  IN IF event \notin DOMAIN cl1[socketId]
     THEN [cl1 EXCEPT ![socketId] = @ @@ (event :> fresh)]
     ELSE IF t >= cl1[socketId][event].start + RATE_WINDOW
     THEN [cl1 EXCEPT ![socketId][event] = fresh]
     ELSE [cl1 EXCEPT ![socketId][event].results = Append(@, ok)]

\* the recorded span of (socketId, event) has room for one more call at time t
CallsLeft(cl, socketId, event, t) ==
  IF socketId \notin DOMAIN cl THEN TRUE
  ELSE IF event \notin DOMAIN cl[socketId] THEN TRUE
  ELSE IF t >= cl[socketId][event].start + RATE_WINDOW THEN TRUE
  ELSE Len(cl[socketId][event].results) < MaxCalls

\* --------------------------------------------------------------- room store
CodeRoom(s) ==
  [type |-> "code", code |-> InitialCode, language |-> "javascript",
   theme |-> "vs-dark", file |-> UndefFile, callType |-> NoVal,
   users |-> {s}, messages |-> <<>>]

FileRoom(s) ==
  [type |-> "file", code |-> NoVal, language |-> NoVal, theme |-> NoVal,
   file |-> NoFile, callType |-> NoVal, users |-> {s}, messages |-> <<>>]

CallRoom(s, callType) ==
  [type |-> "call", code |-> NoVal, language |-> NoVal, theme |-> NoVal,
   file |-> UndefFile, callType |-> callType, users |-> {s}, messages |-> <<>>]

\* room.users.size >= MAX_ROOM_SIZE
RoomFull(room) == Cardinality(room.users) >= MAX_ROOM_SIZE

\* The eviction callback armed when a room is left with no member
ArmIfEmpty(tm, rm, key, t) ==
  IF rm[key].users = {} THEN tm \cup {[key |-> key, due |-> t + EVICT_DELAY]} ELSE tm

\* ------------------------------------------------------ server.ts handlers
\* The body the three join handlers of server.ts share: track the key and
\* subscribe first, then create the room, or reject at the cap, or add.
JoinKey(s, key, kind, fresh, dataEv, joinedEv) ==
  /\ conn[s]
  /\ UNCHANGED calls
  /\ IF key \notin DOMAIN rooms
     THEN /\ rooms' = rooms @@ (key :> fresh)
          /\ currentRooms' = [currentRooms EXCEPT ![s] = @ \cup {key}]
          /\ subs' = [subs EXCEPT ![s] = @ \cup {key}]
          /\ emitted' = ToSender(s, dataEv, key) \cup ToOthers(subs, s, joinedEv, key)
          /\ joinedAs' = (key :> {kind}) @@ joinedAs
          /\ accepted' = (key :> <<>>) @@ accepted
          /\ lastOp' = "join:created"
     ELSE IF RoomFull(rooms[key])
     THEN /\ emitted' = ToSender(s, "room-error", key)
          /\ subs' = [subs EXCEPT ![s] = @ \ {key}]
          /\ currentRooms' = [currentRooms EXCEPT ![s] = @ \ {key}]
          /\ lastOp' = "join:full"
          /\ UNCHANGED <<rooms, joinedAs, accepted>>
     ELSE /\ rooms' = [rooms EXCEPT ![key].users = @ \cup {s}]
          /\ currentRooms' = [currentRooms EXCEPT ![s] = @ \cup {key}]
          /\ subs' = [subs EXCEPT ![s] = @ \cup {key}]
          /\ emitted' = ToSender(s, dataEv, key) \cup ToOthers(subs, s, joinedEv, key)
          /\ joinedAs' = [joinedAs EXCEPT ![key] = @ \cup {kind}]
          /\ lastOp' = "join:added"
          /\ UNCHANGED accepted
  /\ UNCHANGED <<currentRoom, userName, userInfo, conn, rateLimiters, now, timers>>

JoinRoom(s, roomId) ==
  JoinKey(s, roomId, "code", CodeRoom(s), "room-data", "user-joined")

JoinCallRoom(s, roomId, callType) ==
  JoinKey(s, roomKey(roomId, "call"), "call",
          CallRoom(s, callType), "call-room-data", "user-joined-call")

JoinFileRoom(s, roomId) ==
  JoinKey(s, roomKey(roomId, "file"), "file",
          FileRoom(s), "file-room-data", "user-joined")

SetUsername(s, name) ==
  /\ conn[s]
  /\ UNCHANGED calls
  /\ userName' = [userName EXCEPT ![s] = SliceTo(name, MAX_NAME_LEN)]
  /\ lastOp' = "set-username"
  /\ LET keys == currentRooms[s] \cap DOMAIN rooms
     IN /\ rooms' = [k \in DOMAIN rooms |->
                       IF k \in keys THEN [rooms[k] EXCEPT !.users = @ \cup {s}]
                       ELSE rooms[k]]
        /\ emitted' = UNION {ToAll(subs, s, "users-update", k) : k \in keys}
  /\ UNCHANGED <<currentRooms, currentRoom, userInfo, subs, conn, rateLimiters, now,
                 timers, joinedAs, accepted>>

LeaveCallRoom(s, roomId) ==
  LET key == roomKey(roomId, "call") IN
  /\ conn[s]
  /\ UNCHANGED calls
  /\ lastOp' = "leave-call-room"
  /\ IF key \in DOMAIN rooms
     THEN LET rm == [rooms EXCEPT ![key].users = @ \ {s}] IN
          /\ rooms' = rm
          /\ emitted' = ToOthers(subs, s, "user-left-call", key)
          /\ subs' = [subs EXCEPT ![s] = @ \ {key}]
          /\ currentRooms' = [currentRooms EXCEPT ![s] = @ \ {key}]
          /\ timers' = ArmIfEmpty(timers, rm, key, now)
     ELSE /\ emitted' = {}
          /\ UNCHANGED <<rooms, subs, currentRooms, timers>>
  /\ UNCHANGED <<currentRoom, userName, userInfo, conn, rateLimiters, now, joinedAs, accepted>>

RECURSIVE ArmAll(_, _, _, _)
ArmAll(tm, rm, keys, t) ==
  IF keys = {} THEN tm
  ELSE LET k == CHOOSE x \in keys : TRUE
       IN ArmAll(ArmIfEmpty(tm, rm, k, t), rm, keys \ {k}, t)

\* socket.io has taken the socket out of every broadcast room before the
\* disconnect handler runs
Disconnect(s) ==
  /\ conn[s]
  /\ conn' = [conn EXCEPT ![s] = FALSE]
  /\ lastOp' = "disconnect"
  /\ rateLimiters' = RemoveKey(rateLimiters, s)
  /\ calls' = RemoveKey(calls, s)
  /\ LET keys == currentRooms[s] \cap DOMAIN rooms
         rm == [k \in DOMAIN rooms |->
                  IF k \in keys THEN [rooms[k] EXCEPT !.users = @ \ {s}]
                  ELSE rooms[k]]
     IN /\ rooms' = rm
        /\ emitted' = UNION {ToOthers(subs, s,
                               IF rooms[k].type = "call" THEN "user-left-call"
                               ELSE "user-left", k) : k \in keys}
        /\ timers' = ArmAll(timers, rm, keys, now)
  /\ currentRooms' = [currentRooms EXCEPT ![s] = {}]
  /\ subs' = [subs EXCEPT ![s] = {}]
  /\ UNCHANGED <<currentRoom, userName, userInfo, now, joinedAs, accepted>>

\* The setTimeout callback of leave-call-room and disconnect
EvictionTimer(t) ==
  /\ t \in timers
  /\ now >= t.due
  /\ timers' = timers \ {t}
  /\ UNCHANGED calls
  /\ IF t.key \in DOMAIN rooms /\ rooms[t.key].users = {}
     THEN /\ rooms' = RemoveKey(rooms, t.key)
          /\ joinedAs' = RemoveKey(joinedAs, t.key)
          /\ accepted' = RemoveKey(accepted, t.key)
          /\ lastOp' = "eviction:deleted"
     ELSE /\ lastOp' = "eviction:kept"
          /\ UNCHANGED <<rooms, joinedAs, accepted>>
  /\ emitted' = {}
  /\ UNCHANGED <<currentRooms, currentRoom, userName, userInfo, subs, conn, rateLimiters, now>>

\* Date.now() advances
Tick ==
  /\ now < MaxTime
  /\ now' = now + 1
  /\ emitted' = {}
  /\ lastOp' = "tick"
  /\ UNCHANGED calls
  /\ UNCHANGED <<rooms, currentRooms, currentRoom, userName, userInfo, subs, conn,
                 rateLimiters, timers, joinedAs, accepted>>


CodeChange(s, roomId, code) ==
  LET r == checkRateLimit(rateLimiters, s, "code-change", now) IN
  /\ conn[s]
  /\ CallsLeft(calls, s, "code-change", now)
  /\ rateLimiters' = r.rl
  /\ calls' = NoteCall(calls, s, "code-change", now, r.ok)
  /\ IF ~r.ok
     THEN /\ emitted' = {}
          /\ lastOp' = "code-change:rate-limited"
          /\ UNCHANGED rooms
     ELSE IF code.typ = "string" /\ Len(code.val) > MAX_CODE_SIZE
     THEN /\ emitted' = ToSender(s, "room-error", roomId)
          /\ lastOp' = "code-change:too-long"
          /\ UNCHANGED rooms
     ELSE IF roomId \in DOMAIN rooms /\ rooms[roomId].type = "code"
     THEN /\ rooms' = [rooms EXCEPT ![roomId].code = code]
          /\ emitted' = ToOthers(subs, s, "code-update", roomId)
          /\ lastOp' = "code-change:stored"
     ELSE /\ emitted' = {}
          /\ lastOp' = "code-change:no-room"
          /\ UNCHANGED rooms
  /\ UNCHANGED <<currentRooms, currentRoom, userName, userInfo, subs, conn, now, timers,
                 joinedAs, accepted>>

\* The ChatMessage object the handler builds; its id and timestamp
\* (Date.now()) are read by no handler and are left out
NewChatMessage(s, message) ==
  [userId |-> s, userName |-> userName[s], message |-> SliceTo(message, MAX_MESSAGE_LEN)]

\* variant: the trim keeps the oldest MAX_MESSAGES messages
PushMessageKeepOldest(messages, m) ==
  LET pushed == Append(messages, m)
  IN IF Len(pushed) > MAX_MESSAGES THEN SubSeq(pushed, 1, MAX_MESSAGES) ELSE pushed

\* room.messages.push(m); if (length > 100) room.messages = room.messages.slice(-100)
PushMessage(messages, m) ==
  LET pushed == Append(messages, m)
  IN IF Len(pushed) > MAX_MESSAGES THEN SliceLast(pushed, MAX_MESSAGES) ELSE pushed

ChatMessage(s, roomId, message, roomType) ==
  LET r == checkRateLimit(rateLimiters, s, "chat-message", now)
      key == roomKey(roomId, roomType)
      m == NewChatMessage(s, message)
  IN
  /\ conn[s]
  /\ CallsLeft(calls, s, "chat-message", now)
  /\ rateLimiters' = r.rl
  /\ calls' = NoteCall(calls, s, "chat-message", now, r.ok)
  /\ IF r.ok /\ key \in DOMAIN rooms /\ TrimNonEmpty(message)
     THEN /\ Len(accepted[key]) < MaxAccepted
          /\ rooms' = [rooms EXCEPT ![key].messages = PushMessage(@, m)]
          /\ accepted' = [accepted EXCEPT ![key] = Append(@, m)]
          /\ emitted' = ToAll(subs, s, "new-message", key)
          /\ lastOp' = "chat-message:accepted"
     ELSE /\ emitted' = {}
          /\ lastOp' = IF r.ok THEN "chat-message:dropped" ELSE "chat-message:rate-limited"
          /\ UNCHANGED <<rooms, accepted>>
  /\ UNCHANGED <<currentRooms, currentRoom, userName, userInfo, subs, conn, now, timers, joinedAs>>

\* variant: the size test is absent
FileUploadNoCap(s, roomId, file) ==
  LET key == roomKey(roomId, "file") IN
  /\ conn[s]
  /\ UNCHANGED calls
  /\ IF key \in DOMAIN rooms /\ rooms[key].type = "file" /\ file # NoFile
     THEN /\ rooms' = [rooms EXCEPT ![key].file = file]
          /\ emitted' = ToOthers(subs, s, "file-update", key)
          /\ lastOp' = "file-upload:stored"
     ELSE /\ emitted' = {}
          /\ lastOp' = "file-upload:dropped"
          /\ UNCHANGED rooms
  /\ UNCHANGED <<currentRooms, currentRoom, userName, userInfo, subs, conn, rateLimiters, now,
                 timers, joinedAs, accepted>>

\* file = NoFile stands for a null file payload: reading file.size throws and
\* the handler's catch swallows it
FileUpload(s, roomId, file) ==
  LET key == roomKey(roomId, "file") IN
  /\ conn[s]
  /\ UNCHANGED calls
  /\ IF /\ key \in DOMAIN rooms
        /\ rooms[key].type = "file"
        /\ file # NoFile
        /\ file.size <= MAX_FILE_SIZE
     THEN /\ rooms' = [rooms EXCEPT ![key].file = file]
          /\ emitted' = ToOthers(subs, s, "file-update", key)
          /\ lastOp' = "file-upload:stored"
     ELSE /\ emitted' = {}
          /\ lastOp' = IF file # NoFile /\ file.size > MAX_FILE_SIZE
                       THEN "file-upload:too-big" ELSE "file-upload:dropped"
          /\ UNCHANGED rooms
  /\ UNCHANGED <<currentRooms, currentRoom, userName, userInfo, subs, conn, rateLimiters, now,
                 timers, joinedAs, accepted>>

FileRemove(s, roomId) ==
  LET key == roomKey(roomId, "file") IN
  /\ conn[s]
  /\ UNCHANGED calls
  /\ IF key \in DOMAIN rooms /\ rooms[key].type = "file"
     THEN /\ rooms' = [rooms EXCEPT ![key].file = NoFile]
          /\ emitted' = ToAll(subs, s, "file-removed", key)
          /\ lastOp' = "file-remove:done"
     ELSE /\ emitted' = {}
          /\ lastOp' = "file-remove:dropped"
          /\ UNCHANGED rooms
  /\ UNCHANGED <<currentRooms, currentRoom, userName, userInfo, subs, conn, rateLimiters, now,
                 timers, joinedAs, accepted>>

\* ------------------------------------------------ socket-server.ts handlers
\* socket-server.ts keys rooms by the bare roomId for every kind and tracks
\* one currentRoom per connection.
SockJoinKey(s, roomId, kind, fresh, dataEv, joinedEv) ==
  /\ conn[s]
  /\ UNCHANGED calls
  /\ IF roomId \notin DOMAIN rooms
     THEN /\ rooms' = rooms @@ (roomId :> fresh)
          /\ currentRoom' = [currentRoom EXCEPT ![s] = roomId]
          /\ subs' = [subs EXCEPT ![s] = @ \cup {roomId}]
          /\ emitted' = ToSender(s, dataEv, roomId) \cup ToOthers(subs, s, joinedEv, roomId)
          /\ joinedAs' = (roomId :> {kind}) @@ joinedAs
          /\ accepted' = (roomId :> <<>>) @@ accepted
          /\ lastOp' = "join:created"
     ELSE IF RoomFull(rooms[roomId])
     THEN /\ emitted' = ToSender(s, "room-error", roomId)
          /\ subs' = [subs EXCEPT ![s] = @ \ {roomId}]
          /\ currentRoom' = [currentRoom EXCEPT ![s] = NoVal]
          /\ lastOp' = "join:full"
          /\ UNCHANGED <<rooms, joinedAs, accepted>>
     ELSE /\ rooms' = [rooms EXCEPT ![roomId].users = @ \cup {s}]
          /\ currentRoom' = [currentRoom EXCEPT ![s] = roomId]
          /\ subs' = [subs EXCEPT ![s] = @ \cup {roomId}]
          /\ emitted' = ToSender(s, dataEv, roomId) \cup ToOthers(subs, s, joinedEv, roomId)
          /\ joinedAs' = [joinedAs EXCEPT ![roomId] = @ \cup {kind}]
          /\ lastOp' = "join:added"
          /\ UNCHANGED accepted
  /\ UNCHANGED <<currentRooms, userName, userInfo, conn, rateLimiters, now, timers>>

SockJoinRoom(s, roomId) ==
  SockJoinKey(s, roomId, "code", CodeRoom(s), "room-data", "user-joined")

SockJoinFileRoom(s, roomId) ==
  SockJoinKey(s, roomId, "file", FileRoom(s), "file-room-data", "user-joined")

SockJoinCallRoom(s, roomId, callType) ==
  SockJoinKey(s, roomId, "call", CallRoom(s, callType), "call-room-data", "user-joined-call")

SockSetUsername(s, name) ==
  /\ conn[s]
  /\ UNCHANGED calls
  /\ userName' = [userName EXCEPT ![s] = SliceTo(name, MAX_NAME_LEN)]
  /\ lastOp' = "set-username"
  /\ IF currentRoom[s] # NoVal /\ currentRoom[s] \in DOMAIN rooms
     THEN /\ rooms' = [rooms EXCEPT ![currentRoom[s]].users = @ \cup {s}]
          /\ emitted' = ToAll(subs, s, "users-update", currentRoom[s])
     ELSE /\ emitted' = {}
          /\ UNCHANGED rooms
  /\ UNCHANGED <<currentRooms, currentRoom, userInfo, subs, conn, rateLimiters, now,
                 timers, joinedAs, accepted>>

\* no eviction timer is armed here and currentRoom is left as it was
SockLeaveCallRoom(s, roomId) ==
  /\ conn[s]
  /\ UNCHANGED calls
  /\ lastOp' = "leave-call-room"
  /\ IF roomId \in DOMAIN rooms /\ rooms[roomId].type = "call"
     THEN /\ rooms' = [rooms EXCEPT ![roomId].users = @ \ {s}]
          /\ emitted' = ToOthers(subs, s, "user-left-call", roomId)
          /\ subs' = [subs EXCEPT ![s] = @ \ {roomId}]
     ELSE /\ emitted' = {}
          /\ UNCHANGED <<rooms, subs>>
  /\ UNCHANGED <<currentRooms, currentRoom, userName, userInfo, conn, rateLimiters, now, timers,
                 joinedAs, accepted>>

SockDisconnect(s) ==
  /\ conn[s]
  /\ conn' = [conn EXCEPT ![s] = FALSE]
  /\ lastOp' = "disconnect"
  /\ rateLimiters' = RemoveKey(rateLimiters, s)
  /\ calls' = RemoveKey(calls, s)
  /\ IF currentRoom[s] # NoVal /\ currentRoom[s] \in DOMAIN rooms
     THEN LET key == currentRoom[s]
              rm == [rooms EXCEPT ![key].users = @ \ {s}]
          IN /\ rooms' = rm
             /\ emitted' = ToOthers(subs, s,
                              IF rooms[key].type = "call" THEN "user-left-call"
                              ELSE "user-left", key)
             /\ timers' = ArmIfEmpty(timers, rm, key, now)
     ELSE /\ emitted' = {}
          /\ UNCHANGED <<rooms, timers>>
  /\ subs' = [subs EXCEPT ![s] = {}]
  /\ UNCHANGED <<currentRooms, currentRoom, userName, userInfo, now, joinedAs, accepted>>

\* ================================ CallRoom.tsx: the call-room mesh coordinator
\* Clients are the connections 1..NumClients of the relay; socket ids are
\* compared as the integers.  A client runs its socket handlers one at a
\* time, each from the head of its inbox up to its first await; a handler
\* suspended at an await is a task that resumes in a later step.  The relay's
\* handlers run inside the step of the client whose emit they serve.
\* Once the component is unmounted its socket handlers are removed: an event
\* that arrives for it is handled by nobody.
Clients == 1..NumClients
CallId == "r"

\* a PeerState object and its RTCPeerConnection: connectionState is
\* pc.connectionState, connectionTimeout the time the armed timeout is due
\* (NoTimer when none is armed), remoteStream whether ontrack has stored a
\* stream; history: disconnectedAt is the time of the first "disconnected"
\* report since the connection was last reported connected, changes the
\* number of connection state changes reported
NoTimer == 0 - 1
NewPeerState(peerId) ==
  [peerId |-> peerId, pendingCandidates |-> <<>>, remoteDescription |-> FALSE,
   localDescription |-> FALSE, closed |-> FALSE, connectionStatus |-> "connecting",
   connectionState |-> "new", connectionTimeout |-> now + CONNECTION_TIMEOUT,
   remoteStream |-> FALSE, disconnectedAt |-> NoTimer, changes |-> 0]

Msg(ev, from, n, users) == [ev |-> ev, from |-> from, n |-> n, users |-> users]

Task(h, at, link, target, i, rest) ==
  [h |-> h, at |-> at, link |-> link, target |-> target, i |-> i, rest |-> rest]
NoTask == Task("none", "none", 0, 0, 0, <<>>)

RECURSIVE SetToSeq(_)
SetToSeq(S) ==
  IF S = {} THEN <<>>
  ELSE LET x == CHOOSE y \in S : \A z \in S : y <= z
       IN <<x>> \o SetToSeq(S \ {x})

IsPrefix(p, q) == Len(p) <= Len(q) /\ SubSeq(q, 1, Len(p)) = p

\* createPeerConnectionForPeer on one client's objects hp and peer table pr:
\* closes the link the table holds for peerId, creates a new one and stores it
\* (at MAX_MESH_PEERS entries it logs a warning and goes on)
createPeerConnectionForPeer(hp, pr, peerId) ==
  LET hp1 == IF peerId \in DOMAIN pr
             THEN [hp EXCEPT ![pr[peerId]].closed = TRUE,
                             ![pr[peerId]].connectionState = "closed",
                             ![pr[peerId]].connectionTimeout = NoTimer]
             ELSE hp
      hp2 == Append(hp1, NewPeerState(peerId))
  IN [heap |-> hp2, peersRef |-> (peerId :> Len(hp2)) @@ pr, link |-> Len(hp2)]

\* the relay's webrtc-offer / webrtc-answer / webrtc-ice-candidate handlers:
\* socket.to(targetId).emit(ev, {fromId, ...})
RelaySignal(inb, from, target, ev, n) ==
  IF target \in Clients /\ conn[target]
  THEN [inb EXCEPT ![target] = Append(@, Msg(ev, from, n, {}))]
  ELSE inb

\* the events a join-call-room handled by the relay puts on the clients' sockets
DeliverJoin(inb, em, users, from) ==
  [t \in Clients |->
     IF \E e \in em : e.to = t /\ e.ev \in {"call-room-data", "user-joined-call"}
     THEN Append(inb[t],
            Msg((CHOOSE e \in em : e.to = t
                   /\ e.ev \in {"call-room-data", "user-joined-call"}).ev,
                from, 0, users))
     ELSE inb[t]]

MeshInit ==
  /\ joinedCall = [c \in Clients |-> FALSE]
  /\ mediaOk \in [Clients -> BOOLEAN]
  /\ localStream = [c \in Clients |-> FALSE]
  /\ userInfoRef = [c \in Clients |-> 0]
  /\ heap = [c \in Clients |-> <<>>]
  /\ peersRef = [c \in Clients |-> <<>>]
  /\ inbox = [c \in Clients |-> <<>>]
  /\ tasks = [c \in Clients |-> {}]
  /\ sent = [c \in Clients |-> [r \in Clients |-> 0]]
  /\ received = [c \in Clients |-> [r \in Clients |-> <<>>]]
  /\ applied = [c \in Clients |-> [r \in Clients |-> <<>>]]
  /\ offers = [c \in Clients |-> [r \in Clients |-> 0]]
  /\ disconnectGraceTimers = [c \in Clients |-> [map |-> <<>>, pending |-> {}, n |-> 0]]
  /\ mountedRef = [c \in Clients |-> TRUE]

\* init: getUserMedia has resolved or rejected, the socket is connected, the
\* client emits join-call-room and the relay handles it
ClientInit(c) ==
  /\ ~joinedCall[c]
  /\ joinedCall' = [joinedCall EXCEPT ![c] = TRUE]
  /\ localStream' = [localStream EXCEPT ![c] = mediaOk[c]]
  /\ JoinCallRoom(c, CallId, "video")
  /\ inbox' = DeliverJoin(inbox, emitted', rooms'[roomKey(CallId, "call")].users, c)
  /\ UNCHANGED <<mediaOk, userInfoRef, heap, peersRef, tasks, sent, received,
                 applied, offers, disconnectGraceTimers, mountedRef>>

\* the user grants the media permission that getUserMedia was refused
MediaGranted(c) ==
  /\ ~mediaOk[c]
  /\ mediaOk' = [mediaOk EXCEPT ![c] = TRUE]
  /\ UNCHANGED <<joinedCall, localStream, userInfoRef, heap, peersRef, inbox, tasks,
                 sent, received, applied, offers, relayVars, disconnectGraceTimers,
                 mountedRef>>

\* the for loop of call-room-data over the other users, from the users left
\* in rest up to its next await or its end
RECURSIVE MembershipLoop(_, _, _, _, _)
MembershipLoop(hp, pr, c, rest, ls) ==
  IF rest = <<>> THEN [heap |-> hp, peersRef |-> pr, task |-> NoTask]
  ELSE LET r == createPeerConnectionForPeer(hp, pr, Head(rest))
       IN IF c < Head(rest) /\ ls
          THEN [heap |-> r.heap, peersRef |-> r.peersRef,
                task |-> Task("call-room-data", "createOffer", r.link, Head(rest),
                              0, Tail(rest))]
          ELSE MembershipLoop(r.heap, r.peersRef, c, Tail(rest), ls)

TaskSet(t) == IF t = NoTask THEN {} ELSE {t}

OnCallRoomData(c) ==
  /\ mountedRef[c]
  /\ inbox[c] # <<>>
  /\ Head(inbox[c]).ev = "call-room-data"
  /\ inbox' = [inbox EXCEPT ![c] = Tail(@)]
  /\ userInfoRef' = [userInfoRef EXCEPT ![c] = c]
  /\ LET others == SetToSeq(Head(inbox[c]).users \ {c})
         r == MembershipLoop(heap[c], peersRef[c], c, others, TRUE)
     IN /\ Len(heap[c]) + Len(others) <= MaxLinks
        /\ IF ~localStream[c]
           THEN /\ tasks' = [tasks EXCEPT ![c] =
                               @ \cup {Task("call-room-data", "media", 0, 0, 0, others)}]
                /\ UNCHANGED <<heap, peersRef>>
           ELSE /\ heap' = [heap EXCEPT ![c] = r.heap]
                /\ peersRef' = [peersRef EXCEPT ![c] = r.peersRef]
                /\ tasks' = [tasks EXCEPT ![c] = @ \cup TaskSet(r.task)]
  /\ UNCHANGED <<joinedCall, mediaOk, localStream, sent, received, applied, offers,
                 relayVars, disconnectGraceTimers,
                 mountedRef>>

OnUserJoinedCall(c) ==
  /\ mountedRef[c]
  /\ inbox[c] # <<>>
  /\ Head(inbox[c]).ev = "user-joined-call"
  /\ inbox' = [inbox EXCEPT ![c] = Tail(@)]
  /\ LET user == Head(inbox[c]).from
         r == createPeerConnectionForPeer(heap[c], peersRef[c], user)
     IN IF userInfoRef[c] = 0 \/ user = userInfoRef[c]
        THEN UNCHANGED <<heap, peersRef, tasks>>
        ELSE /\ Len(heap[c]) < MaxLinks
             /\ heap' = [heap EXCEPT ![c] = r.heap]
             /\ peersRef' = [peersRef EXCEPT ![c] = r.peersRef]
             /\ tasks' = [tasks EXCEPT ![c] =
                  IF userInfoRef[c] < user /\ localStream[c]
                  THEN @ \cup {Task("user-joined-call", "createOffer", r.link, user, 0, <<>>)}
                  ELSE @]
  /\ UNCHANGED <<joinedCall, mediaOk, localStream, userInfoRef, sent, received,
                 applied, offers, relayVars, disconnectGraceTimers,
                 mountedRef>>

OnWebrtcOffer(c) ==
  /\ mountedRef[c]
  /\ inbox[c] # <<>>
  /\ Head(inbox[c]).ev = "webrtc-offer"
  /\ inbox' = [inbox EXCEPT ![c] = Tail(@)]
  /\ LET from == Head(inbox[c]).from
         r == createPeerConnectionForPeer(heap[c], peersRef[c], from)
     IN IF ~localStream[c]
        THEN /\ tasks' = [tasks EXCEPT ![c] =
                            @ \cup {Task("webrtc-offer", "media", 0, from, 0, <<>>)}]
             /\ UNCHANGED <<heap, peersRef>>
        ELSE /\ Len(heap[c]) < MaxLinks
             /\ heap' = [heap EXCEPT ![c] = r.heap]
             /\ peersRef' = [peersRef EXCEPT ![c] = r.peersRef]
             /\ tasks' = [tasks EXCEPT ![c] =
                            @ \cup {Task("webrtc-offer", "setRemote", r.link, from, 0, <<>>)}]
  /\ UNCHANGED <<joinedCall, mediaOk, localStream, userInfoRef, sent, received,
                 applied, offers, relayVars, disconnectGraceTimers,
                 mountedRef>>

OnWebrtcAnswer(c) ==
  /\ mountedRef[c]
  /\ inbox[c] # <<>>
  /\ Head(inbox[c]).ev = "webrtc-answer"
  /\ inbox' = [inbox EXCEPT ![c] = Tail(@)]
  /\ LET from == Head(inbox[c]).from
     IN tasks' = [tasks EXCEPT ![c] =
                    IF from \in DOMAIN peersRef[c]
                    THEN @ \cup {Task("webrtc-answer", "setRemote", peersRef[c][from],
                                      from, 0, <<>>)}
                    ELSE @]
  /\ UNCHANGED <<joinedCall, mediaOk, localStream, userInfoRef, heap, peersRef, sent,
                 received, applied, offers, relayVars, disconnectGraceTimers,
                 mountedRef>>

\* with no link the candidate is ignored; with a remote description it goes
\* to addIceCandidate at once; otherwise it is queued on the link
OnIceCandidate(c) ==
  /\ mountedRef[c]
  /\ inbox[c] # <<>>
  /\ Head(inbox[c]).ev = "webrtc-ice-candidate"
  /\ inbox' = [inbox EXCEPT ![c] = Tail(@)]
  /\ LET from == Head(inbox[c]).from
         n == Head(inbox[c]).n
     IN /\ received' = [received EXCEPT ![c][from] = Append(@, n)]
        /\ IF from \notin DOMAIN peersRef[c]
           THEN UNCHANGED <<heap, applied>>
           ELSE IF heap[c][peersRef[c][from]].remoteDescription
           THEN /\ applied' = [applied EXCEPT ![c][from] = Append(@, n)]
                /\ UNCHANGED heap
           ELSE /\ heap' = [heap EXCEPT ![c][peersRef[c][from]].pendingCandidates =
                               Append(@, n)]
                /\ UNCHANGED applied
  /\ UNCHANGED <<joinedCall, mediaOk, localStream, userInfoRef, peersRef, tasks, sent,
                 offers, relayVars, disconnectGraceTimers,
                 mountedRef>>

\* pc.onicecandidate of a link with a local description
IceCandidate(c, r) ==
  /\ sent[c][r] < MaxCand
  /\ \E k \in 1..Len(heap[c]) :
       /\ heap[c][k].peerId = r
       /\ heap[c][k].localDescription
       /\ ~heap[c][k].closed
  /\ sent' = [sent EXCEPT ![c][r] = @ + 1]
  /\ inbox' = RelaySignal(inbox, c, r, "webrtc-ice-candidate", sent[c][r] + 1)
  /\ UNCHANGED <<joinedCall, mediaOk, localStream, userInfoRef, heap, peersRef, tasks,
                 received, applied, offers, relayVars, disconnectGraceTimers,
                 mountedRef>>

\* await startLocalStream() settles in call-room-data or webrtc-offer
ResumeMedia(c, t) ==
  /\ t \in tasks[c]
  /\ t.at = "media"
  /\ IF ~mediaOk[c]
     THEN /\ tasks' = [tasks EXCEPT ![c] = @ \ {t}]
          /\ UNCHANGED <<localStream, heap, peersRef>>
     ELSE /\ localStream' = [localStream EXCEPT ![c] = TRUE]
          /\ IF t.h = "call-room-data" /\ ~mountedRef[c]
             THEN /\ tasks' = [tasks EXCEPT ![c] = @ \ {t}]
                  /\ UNCHANGED <<heap, peersRef>>
             ELSE IF t.h = "call-room-data"
             THEN LET r == MembershipLoop(heap[c], peersRef[c], c, t.rest, TRUE)
                  IN /\ Len(heap[c]) + Len(t.rest) <= MaxLinks
                     /\ heap' = [heap EXCEPT ![c] = r.heap]
                     /\ peersRef' = [peersRef EXCEPT ![c] = r.peersRef]
                     /\ tasks' = [tasks EXCEPT ![c] = (@ \ {t}) \cup TaskSet(r.task)]
             ELSE LET r == createPeerConnectionForPeer(heap[c], peersRef[c], t.target)
                  IN /\ Len(heap[c]) < MaxLinks
                     /\ heap' = [heap EXCEPT ![c] = r.heap]
                     /\ peersRef' = [peersRef EXCEPT ![c] = r.peersRef]
                     /\ tasks' = [tasks EXCEPT ![c] = (@ \ {t}) \cup
                          {Task("webrtc-offer", "setRemote", r.link, t.target, 0, <<>>)}]
  /\ UNCHANGED <<joinedCall, mediaOk, userInfoRef, inbox, sent, received, applied,
                 offers, relayVars, disconnectGraceTimers,
                 mountedRef>>

\* what follows the try/catch around the offer in membership processing:
\* the next user of the call-room-data loop, or the end of the handler
AfterOffer(c, t, hp) ==
  LET r == IF t.h = "call-room-data"
           THEN MembershipLoop(hp, peersRef[c], c, t.rest, localStream[c])
           ELSE [heap |-> hp, peersRef |-> peersRef[c], task |-> NoTask]
  IN /\ heap' = [heap EXCEPT ![c] = r.heap]
     /\ peersRef' = [peersRef EXCEPT ![c] = r.peersRef]
     /\ tasks' = [tasks EXCEPT ![c] = (@ \ {t}) \cup TaskSet(r.task)]

\* await peerState.pc.createOffer() settles; it rejects on a closed connection
ResumeCreateOffer(c, t) ==
  /\ t \in tasks[c]
  /\ t.at = "createOffer"
  /\ IF heap[c][t.link].closed
     THEN AfterOffer(c, t, heap[c])
     ELSE /\ tasks' = [tasks EXCEPT ![c] = (@ \ {t}) \cup {[t EXCEPT !.at = "setLocal"]}]
          /\ UNCHANGED <<heap, peersRef>>
  /\ UNCHANGED <<joinedCall, mediaOk, localStream, userInfoRef, inbox, sent, received,
                 applied, offers, relayVars, disconnectGraceTimers,
                 mountedRef>>

\* await peerState.pc.setLocalDescription(offer) settles, then the offer is emitted
ResumeSetLocalOffer(c, t) ==
  /\ t \in tasks[c]
  /\ t.at = "setLocal"
  /\ IF heap[c][t.link].closed
     THEN /\ AfterOffer(c, t, heap[c])
          /\ UNCHANGED <<inbox, offers>>
     ELSE /\ AfterOffer(c, t, [heap[c] EXCEPT ![t.link].localDescription = TRUE])
          /\ inbox' = RelaySignal(inbox, c, t.target, "webrtc-offer", 0)
          /\ offers' = [offers EXCEPT ![c][t.target] = @ + 1]
  /\ UNCHANGED <<joinedCall, mediaOk, localStream, userInfoRef, sent, received,
                 applied, relayVars, disconnectGraceTimers,
                 mountedRef>>

\* the flush loop of webrtc-offer and webrtc-answer from index i: the call of
\* addIceCandidate on the i-th queued candidate, or the end of the loop
Flush(c, t, i, hp) ==
  LET q == hp[t.link].pendingCandidates IN
  IF i <= Len(q)
  THEN /\ heap' = [heap EXCEPT ![c] = hp]
       /\ IF hp[t.link].closed
          THEN /\ tasks' = [tasks EXCEPT ![c] = @ \ {t}]
               /\ UNCHANGED applied
          ELSE /\ applied' = [applied EXCEPT ![c][t.target] = Append(@, q[i])]
               /\ tasks' = [tasks EXCEPT ![c] =
                              (@ \ {t}) \cup {[t EXCEPT !.at = "flush", !.i = i]}]
  ELSE /\ heap' = [heap EXCEPT ![c] = [hp EXCEPT ![t.link].pendingCandidates = <<>>]]
       /\ tasks' = [tasks EXCEPT ![c] =
                      (@ \ {t}) \cup (IF t.h = "webrtc-offer"
                                      THEN {[t EXCEPT !.at = "createAnswer", !.i = 0]}
                                      ELSE {})]
       /\ UNCHANGED applied

\* await pc.setRemoteDescription settles: it rejects on a closed connection
\* and, for an answer, on a connection that has made no offer
ResumeSetRemote(c, t) ==
  /\ t \in tasks[c]
  /\ t.at = "setRemote"
  /\ IF \/ heap[c][t.link].closed
        \/ (t.h = "webrtc-answer" /\ ~heap[c][t.link].localDescription)
     THEN /\ tasks' = [tasks EXCEPT ![c] = @ \ {t}]
          /\ UNCHANGED <<heap, applied>>
     ELSE Flush(c, t, 1, [heap[c] EXCEPT ![t.link].remoteDescription = TRUE])
  /\ UNCHANGED <<joinedCall, mediaOk, localStream, userInfoRef, peersRef, inbox, sent,
                 received, offers, relayVars, disconnectGraceTimers,
                 mountedRef>>

\* await pc.addIceCandidate of the flush loop settles
ResumeFlush(c, t) ==
  /\ t \in tasks[c]
  /\ t.at = "flush"
  /\ IF heap[c][t.link].closed
     THEN /\ tasks' = [tasks EXCEPT ![c] = @ \ {t}]
          /\ UNCHANGED <<heap, applied>>
     ELSE Flush(c, t, t.i + 1, heap[c])
  /\ UNCHANGED <<joinedCall, mediaOk, localStream, userInfoRef, peersRef, inbox, sent,
                 received, offers, relayVars, disconnectGraceTimers,
                 mountedRef>>

\* await pc.createAnswer() settles
ResumeCreateAnswer(c, t) ==
  /\ t \in tasks[c]
  /\ t.at = "createAnswer"
  /\ tasks' = [tasks EXCEPT ![c] =
                 (@ \ {t}) \cup (IF heap[c][t.link].closed THEN {}
                                 ELSE {[t EXCEPT !.at = "setLocalAnswer"]})]
  /\ UNCHANGED <<joinedCall, mediaOk, localStream, userInfoRef, heap, peersRef, inbox,
                 sent, received, applied, offers, relayVars, disconnectGraceTimers,
                 mountedRef>>

\* a webrtc-offer handler that sets the local answer and emits nothing
ResumeSetLocalAnswerSilent(c, t) ==
  /\ t \in tasks[c]
  /\ t.at = "setLocalAnswer"
  /\ tasks' = [tasks EXCEPT ![c] = @ \ {t}]
  /\ IF heap[c][t.link].closed
     THEN UNCHANGED heap
     ELSE heap' = [heap EXCEPT ![c][t.link].localDescription = TRUE]
  /\ UNCHANGED <<joinedCall, mediaOk, localStream, userInfoRef, peersRef, inbox, sent,
                 received, applied, offers, relayVars, disconnectGraceTimers,
                 mountedRef>>

\* await pc.setLocalDescription(answer) settles, then the answer is emitted
ResumeSetLocalAnswer(c, t) ==
  /\ t \in tasks[c]
  /\ t.at = "setLocalAnswer"
  /\ tasks' = [tasks EXCEPT ![c] = @ \ {t}]
  /\ IF heap[c][t.link].closed
     THEN UNCHANGED <<heap, inbox>>
     ELSE /\ heap' = [heap EXCEPT ![c][t.link].localDescription = TRUE]
          /\ inbox' = RelaySignal(inbox, c, t.target, "webrtc-answer", 0)
  /\ UNCHANGED <<joinedCall, mediaOk, localStream, userInfoRef, peersRef, sent,
                 received, applied, offers, relayVars, disconnectGraceTimers,
                 mountedRef>>


\* ------------------------------------------------------------ input domains
RoomIds == {"r"}
\* room ids a client may send to join-room: "r:file" is the key of file room "r"
KindIds == {"r", "r:file"}
NameInputs == {<<1, 2, 1>>}
ChatInputs == {<<0>>, <<2, 1, 1>>}
CodeInputs == {StringPayload(<<2>>), StringPayload(<<1, 1, 1>>), ArrayPayload(<<1, 1, 1>>)}
FileInputs == {[name |-> "a", size |-> 1], [name |-> "b", size |-> 3], NoFile}

\* ------------------------------- server.ts: membership of code and call rooms
Init == RelayInit /\ MeshInit

Next ==
  \/ \E s \in Sockets, id \in RoomIds : JoinRoom(s, id)
       /\ UNCHANGED meshVars
  \/ \E s \in Sockets, id \in RoomIds : JoinCallRoom(s, id, "video")
       /\ UNCHANGED meshVars
  \/ \E s \in Sockets, id \in RoomIds : LeaveCallRoom(s, id)
       /\ UNCHANGED meshVars
  \/ \E s \in Sockets, n \in NameInputs : SetUsername(s, n)
       /\ UNCHANGED meshVars
  \/ \E s \in Sockets : Disconnect(s)
       /\ UNCHANGED meshVars
  \/ \E t \in timers : EvictionTimer(t)
       /\ UNCHANGED meshVars
  \/ Tick /\ UNCHANGED meshVars

Spec == Init /\ [][Next]_vars

\* ------------------------------------- socket-server.ts: membership of rooms
NextSock ==
  \/ \E s \in Sockets, id \in RoomIds : SockJoinRoom(s, id)
       /\ UNCHANGED meshVars
  \/ \E s \in Sockets, id \in RoomIds : SockJoinFileRoom(s, id)
       /\ UNCHANGED meshVars
  \/ \E s \in Sockets, id \in RoomIds : SockJoinCallRoom(s, id, "video")
       /\ UNCHANGED meshVars
  \/ \E s \in Sockets, id \in RoomIds : SockLeaveCallRoom(s, id)
       /\ UNCHANGED meshVars
  \/ \E s \in Sockets, n \in NameInputs : SockSetUsername(s, n)
       /\ UNCHANGED meshVars
  \/ \E s \in Sockets : SockDisconnect(s)
       /\ UNCHANGED meshVars
  \/ \E t \in timers : EvictionTimer(t)
       /\ UNCHANGED meshVars
  \/ Tick /\ UNCHANGED meshVars

SpecSock == Init /\ [][NextSock]_vars

\* ------------------------------------------- server.ts: chat in a code room
NextChat ==
  \/ \E s \in Editors, id \in RoomIds : JoinRoom(s, id)
       /\ UNCHANGED meshVars
  \/ \E s \in Editors, id \in RoomIds, m \in ChatInputs : ChatMessage(s, id, m, "code")
       /\ UNCHANGED meshVars
  \/ \E s \in Editors : Disconnect(s)
       /\ UNCHANGED meshVars
  \/ \E t \in timers : EvictionTimer(t)
       /\ UNCHANGED meshVars
  \/ Tick /\ UNCHANGED meshVars

SpecChat == Init /\ [][NextChat]_vars

\* ------------------------------- server.ts: editing code and the shared file
NextEdit ==
  \/ \E s \in Editors, id \in RoomIds : JoinRoom(s, id)
       /\ UNCHANGED meshVars
  \/ \E s \in Editors, id \in RoomIds : JoinFileRoom(s, id)
       /\ UNCHANGED meshVars
  \/ \E s \in Editors, id \in RoomIds, c \in CodeInputs : CodeChange(s, id, c)
       /\ UNCHANGED meshVars
  \/ \E s \in Editors, id \in RoomIds, f \in FileInputs : FileUpload(s, id, f)
       /\ UNCHANGED meshVars
  \/ \E s \in Editors, id \in RoomIds : FileRemove(s, id)
       /\ UNCHANGED meshVars

SpecEdit == Init /\ [][NextEdit]_vars

\* ------------------------- server.ts: rooms of the three kinds side by side
NextKinds ==
  \/ \E s \in Editors, id \in KindIds : JoinRoom(s, id)
       /\ UNCHANGED meshVars
  \/ \E s \in Editors, id \in RoomIds : JoinFileRoom(s, id)
       /\ UNCHANGED meshVars
  \/ \E s \in Editors, id \in RoomIds : JoinCallRoom(s, id, "video")
       /\ UNCHANGED meshVars
  \/ \E s \in Editors, id \in RoomIds : LeaveCallRoom(s, id)
       /\ UNCHANGED meshVars
  \/ \E s \in Editors, id \in RoomIds, f \in FileInputs : FileUpload(s, id, f)
       /\ UNCHANGED meshVars
  \/ \E s \in Editors, id \in RoomIds : FileRemove(s, id)
       /\ UNCHANGED meshVars
  \/ \E s \in Editors : Disconnect(s)
       /\ UNCHANGED meshVars

SpecKinds == Init /\ [][NextKinds]_vars

\* --------------------------------- CallRoom.tsx clients on the server.ts relay
NextMesh ==
  \/ \E c \in Clients : ClientInit(c)
  \/ \E c \in Clients : MediaGranted(c)
  \/ \E c \in Clients : OnCallRoomData(c)
  \/ \E c \in Clients : OnUserJoinedCall(c)
  \/ \E c \in Clients : OnWebrtcOffer(c)
  \/ \E c \in Clients : OnWebrtcAnswer(c)
  \/ \E c \in Clients : OnIceCandidate(c)
  \/ \E c, r \in Clients : c # r /\ IceCandidate(c, r)
  \/ \E c \in Clients : \E t \in tasks[c] : ResumeMedia(c, t)
  \/ \E c \in Clients : \E t \in tasks[c] : ResumeCreateOffer(c, t)
  \/ \E c \in Clients : \E t \in tasks[c] : ResumeSetLocalOffer(c, t)
  \/ \E c \in Clients : \E t \in tasks[c] : ResumeSetRemote(c, t)
  \/ \E c \in Clients : \E t \in tasks[c] : ResumeFlush(c, t)
  \/ \E c \in Clients : \E t \in tasks[c] : ResumeCreateAnswer(c, t)
  \/ \E c \in Clients : \E t \in tasks[c] : ResumeSetLocalAnswer(c, t)

SpecMesh == Init /\ [][NextMesh]_vars

\* ---------------------------------------------------------------- claims
\* C1: every room in the relay's room table has at most MAX_ROOM_SIZE members
\* in every reachable state.
C1_RoomSizeAtMostCap ==
  \A key \in DOMAIN rooms : Cardinality(rooms[key].users) <= MAX_ROOM_SIZE


\* C2: a join that arrives when the target room already holds MAX_ROOM_SIZE
\* members has no side effects, whether or not the sender is a member: the
\* room table, the sender's tracked rooms and the sender's broadcast
\* subscriptions are the same after the join as before it.
C2_JoinAtCapNoSideEffects ==
  [][\A s \in Sockets, id \in RoomIds :
       /\ \/ (id \in DOMAIN rooms /\ RoomFull(rooms[id]) /\ JoinRoom(s, id))
          \/ (roomKey(id, "call") \in DOMAIN rooms
                /\ RoomFull(rooms[roomKey(id, "call")])
                /\ JoinCallRoom(s, id, "video"))
       => /\ rooms' = rooms
          /\ currentRooms'[s] = currentRooms[s]
          /\ subs'[s] = subs[s]]_vars

\* C3: for every room, the stored chat history has at most MAX_MESSAGES
\* entries and is the last min(n, MAX_MESSAGES) of the n messages accepted on
\* the room so far, in the order they were accepted.
C3_HistoryIsLastAccepted ==
  \A key \in DOMAIN rooms :
    /\ Len(rooms[key].messages) <= MAX_MESSAGES
    /\ Len(rooms[key].messages) = Min(Len(accepted[key]), MAX_MESSAGES)
    /\ rooms[key].messages = SliceLast(accepted[key], MAX_MESSAGES)

C3_Witness ==
  \E key \in DOMAIN rooms :
    /\ lastOp = "chat-message:accepted"
    /\ Len(accepted[key]) > MAX_MESSAGES
    /\ accepted[key][1] # accepted[key][Len(accepted[key])]
    /\ rooms[key].messages = SubSeq(accepted[key], 2, MAX_MESSAGES + 1)

\* C4: rooms of different kinds never share a room-table entry: every join
\* accepted on an entry since its creation is a join of the entry's own kind.
C4_KindsNeverShareEntry ==
  \A key \in DOMAIN rooms : joinedAs[key] = {rooms[key].type}

\* C5: for each connection and event kind with limit L, of the calls made to
\* checkRateLimit since a window was opened (no entry, or a call at or after
\* resetAt) exactly the first L return true and every further one returns
\* false, and the opening call sets count 1 and resetAt = now + RATE_WINDOW.
C5_FirstLCallsPass ==
  \A s \in DOMAIN calls : \A ev \in DOMAIN calls[s] :
    LET c == calls[s][ev]
        L == RATE_LIMITS[ev]
    IN /\ \A i \in 1..Len(c.results) : c.results[i] = (i <= L)
       /\ s \in DOMAIN rateLimiters
       /\ ev \in DOMAIN rateLimiters[s]
       /\ rateLimiters[s][ev].resetAt = c.start + RATE_WINDOW
       /\ rateLimiters[s][ev].count = Min(Len(c.results), L)

C5_Witness ==
  \E s, u \in DOMAIN calls :
    /\ "chat-message" \in DOMAIN calls[s]
    /\ "chat-message" \in DOMAIN calls[u]
    /\ Len(calls[s]["chat-message"].results) > LIMIT_CHAT_MESSAGE
    /\ calls[u]["chat-message"].start >= RATE_WINDOW
    /\ rateLimiters[u]["chat-message"].count = 1

\* C6: a code-change to a code room whose code payload is longer than
\* MAX_CODE_SIZE, of whatever type the payload is, leaves the room table as
\* it was, sends no code-update and sends a room-error to the sender.
C6_OverCapCodeRejected ==
  [][\A s \in Editors, id \in RoomIds, c \in CodeInputs :
       (/\ id \in DOMAIN rooms
        /\ rooms[id].type = "code"
        /\ Len(c.val) > MAX_CODE_SIZE
        /\ CodeChange(s, id, c))
         => /\ rooms' = rooms
            /\ \A e \in emitted' : e.ev # "code-update"
            /\ \E e \in emitted' : e.ev = "room-error" /\ e.to = s]_vars

\* C7: a file-upload with a size over MAX_FILE_SIZE leaves the room table as
\* it was and sends no file-update; and whenever a step leaves a room with a
\* stored file that is present and differs from the one before, the step is
\* a file-upload of that file with a size at or under MAX_FILE_SIZE.
C7_OnlyCappedUploadStores ==
  [][/\ \A s \in Editors, id \in RoomIds, f \in FileInputs :
          (f # NoFile /\ f.size > MAX_FILE_SIZE /\ FileUpload(s, id, f))
            => /\ rooms' = rooms
               /\ \A e \in emitted' : e.ev # "file-update"
     /\ \A key \in DOMAIN rooms' :
          (/\ rooms'[key].file \notin {NoFile, UndefFile}
           /\ IF key \in DOMAIN rooms THEN rooms[key].file # rooms'[key].file
              ELSE TRUE)
            => \E s \in Editors, id \in RoomIds, f \in FileInputs :
                 /\ f # NoFile
                 /\ f.size <= MAX_FILE_SIZE
                 /\ roomKey(id, "file") = key
                 /\ FileUpload(s, id, f)
                 /\ rooms'[key].file = f]_vars

C7_Witness ==
  /\ lastOp = "file-upload:too-big"
  /\ roomKey("r", "file") \in DOMAIN rooms
  /\ rooms[roomKey("r", "file")].file \notin {NoFile, UndefFile}
  /\ rooms[roomKey("r", "file")].file.size <= MAX_FILE_SIZE

\* C8: every capacity rejection (a join to a full room, a code-change the
\* handler rejects for its length, a file-upload over the size cap to an
\* existing file room) emits a room-error to the sender and a room-error to
\* no other connection.
C8_RejectionsReachSenderOnly ==
  [][\A s \in Editors, id \in RoomIds :
       (\/ (id \in DOMAIN rooms /\ RoomFull(rooms[id]) /\ JoinRoom(s, id))
        \/ (roomKey(id, "file") \in DOMAIN rooms
              /\ RoomFull(rooms[roomKey(id, "file")]) /\ JoinFileRoom(s, id))
        \/ \E c \in CodeInputs :
              lastOp' = "code-change:too-long" /\ CodeChange(s, id, c)
        \/ \E f \in FileInputs :
              /\ f # NoFile /\ f.size > MAX_FILE_SIZE
              /\ roomKey(id, "file") \in DOMAIN rooms
              /\ rooms[roomKey(id, "file")].type = "file"
              /\ FileUpload(s, id, f))
       => /\ \E e \in emitted' : e.ev = "room-error" /\ e.to = s
          /\ \A e \in emitted' : e.ev = "room-error" => e.to = s]_vars

\* client c has handled every event delivered to it and no handler of c is
\* suspended
Quiet(c) == inbox[c] = <<>> /\ tasks[c] = {}

\* C9: for clients a < b of the call room, b never emits an offer to a from
\* membership processing, a emits at most one to b, and once both have joined
\* and every client has handled all it was sent, a has emitted exactly one.
C9_ExactlyOneOfferByLowerId ==
  \A a, b \in Clients :
    a < b =>
      /\ offers[b][a] = 0
      /\ offers[a][b] <= 1
      /\ (/\ roomKey(CallId, "call") \in DOMAIN rooms
          /\ {a, b} \subseteq rooms[roomKey(CallId, "call")].users
          /\ \A c \in Clients : Quiet(c))
         => offers[a][b] = 1

\* C10: for every client and remote, the candidates handed to addIceCandidate
\* are at every moment a prefix of the candidates received from the remote,
\* so none is skipped, repeated or applied out of arrival order, and once the
\* client is quiet with a remote description set on the remote's link, every
\* candidate received has been handed over.
C10_CandidatesInArrivalOrder ==
  \A c, r \in Clients :
    c # r =>
      /\ IsPrefix(applied[c][r], received[c][r])
      /\ (/\ Quiet(c)
          /\ r \in DOMAIN peersRef[c]
          /\ heap[c][peersRef[c][r]].remoteDescription)
         => applied[c][r] = received[c][r]

\* ------------------------------------------- room eviction with a fair clock
\* Date.now() beyond MaxTime: the clock keeps its value and every pending
\* timer moves one unit closer instead
TickBeyond ==
  /\ now = MaxTime
  /\ \E t \in timers : t.due > now
  /\ timers' = {[t EXCEPT !.due = IF t.due > now THEN t.due - 1 ELSE t.due] : t \in timers}
  /\ emitted' = {}
  /\ lastOp' = "tick"
  /\ UNCHANGED calls
  /\ UNCHANGED <<rooms, currentRooms, currentRoom, userName, userInfo, subs, conn,
                 rateLimiters, now, joinedAs, accepted>>

RelayTick == (Tick \/ TickBeyond) /\ UNCHANGED meshVars
RelayEvict == \E t \in timers : EvictionTimer(t) /\ UNCHANGED meshVars

NextEvict ==
  \/ \E s \in Editors, id \in RoomIds : JoinRoom(s, id)
       /\ UNCHANGED meshVars
  \/ \E s \in Editors, id \in RoomIds : JoinCallRoom(s, id, "video")
       /\ UNCHANGED meshVars
  \/ \E s \in Editors, id \in RoomIds : LeaveCallRoom(s, id)
       /\ UNCHANGED meshVars
  \/ \E s \in Editors : Disconnect(s)
       /\ UNCHANGED meshVars
  \/ RelayEvict
  \/ RelayTick

NextEvictSock ==
  \/ \E s \in Editors, id \in RoomIds : SockJoinRoom(s, id)
       /\ UNCHANGED meshVars
  \/ \E s \in Editors, id \in RoomIds : SockJoinCallRoom(s, id, "video")
       /\ UNCHANGED meshVars
  \/ \E s \in Editors, id \in RoomIds : SockLeaveCallRoom(s, id)
       /\ UNCHANGED meshVars
  \/ \E s \in Editors : SockDisconnect(s)
       /\ UNCHANGED meshVars
  \/ RelayEvict
  \/ RelayTick

RoomKeys == RoomIds \cup {roomKey(id, "call") : id \in RoomIds}
TimerVals == [key : RoomKeys, due : 0..(MaxTime + EVICT_DELAY)]

\* time passes and every due setTimeout callback runs
EvictFair ==
  /\ WF_vars(RelayTick)
  /\ \A t \in TimerVals : WF_vars(EvictionTimer(t) /\ UNCHANGED meshVars)

SpecEvict == Init /\ [][NextEvict]_vars /\ EvictFair
SpecEvictSock == Init /\ [][NextEvictSock]_vars /\ EvictFair

\* C12: no step deletes a room that has a member, and a room with no member
\* is later deleted from the room table or has a member again.
C12_EmptyRoomEvictedOnce ==
  /\ [][\A key \in DOMAIN rooms :
          key \notin DOMAIN rooms' => rooms[key].users = {}]_vars
  /\ \A key \in RoomKeys :
       (key \in DOMAIN rooms /\ rooms[key].users = {})
         ~> (key \notin DOMAIN rooms \/ rooms[key].users # {})

\* ------------------------------------ socket-server.ts with two room ids
TwoRooms == {"r", "q"}

NextTwoSock ==
  \/ \E s \in Editors, id \in TwoRooms : SockJoinRoom(s, id)
       /\ UNCHANGED meshVars
  \/ \E s \in Editors, id \in TwoRooms : SockJoinCallRoom(s, id, "video")
       /\ UNCHANGED meshVars
  \/ \E s \in Editors : SockDisconnect(s)
       /\ UNCHANGED meshVars
  \/ \E t \in timers : EvictionTimer(t)
       /\ UNCHANGED meshVars
  \/ Tick /\ UNCHANGED meshVars

SpecTwoSock == Init /\ [][NextTwoSock]_vars

LeftEvent(key) == IF rooms[key].type = "call" THEN "user-left-call" ELSE "user-left"

\* C18: the step in which a connection disconnects removes it from the member
\* set of every room that held it, sends each other member of such a room
\* user-left (code, file) or user-left-call (call), and leaves an eviction
\* timer armed for every such room that now has no member.
C18_DisconnectLeavesEveryRoom ==
  [][\A s \in Sockets :
       (conn[s] /\ ~conn'[s]) =>
         \A key \in DOMAIN rooms :
           s \in rooms[key].users =>
             /\ key \in DOMAIN rooms'
             /\ s \notin rooms'[key].users
             /\ \A o \in rooms[key].users \ {s} :
                  [to |-> o, ev |-> LeftEvent(key), room |-> key] \in emitted'
             /\ rooms'[key].users = {} =>
                  \E t \in timers' : t.key = key /\ t.due = now + EVICT_DELAY]_vars

\* ------------------------------------------- chat and reactions of a call room
\* server.ts emoji-reaction: io.to(roomKey(roomId, "call")).emit
EmojiReaction(s, roomId) ==
  /\ conn[s]
  /\ emitted' = ToAll(subs, s, "emoji-reaction", roomKey(roomId, "call"))
  /\ lastOp' = "emoji-reaction"
  /\ UNCHANGED <<rooms, currentRooms, currentRoom, userName, userInfo, subs, conn, rateLimiters,
                 now, timers, joinedAs, accepted, calls>>

\* CallRoom.tsx handleSendMessage of a client in call room roomId: the
\* chat-message carries no roomType, which the relay reads as "code"
SendCallChat(s, roomId, message) ==
  /\ roomKey(roomId, "call") \in DOMAIN rooms
  /\ s \in rooms[roomKey(roomId, "call")].users
  /\ ChatMessage(s, roomId, message, "code")

\* CallRoom.tsx sendEmoji of a client in call room roomId
SendEmoji(s, roomId) ==
  /\ roomKey(roomId, "call") \in DOMAIN rooms
  /\ s \in rooms[roomKey(roomId, "call")].users
  /\ EmojiReaction(s, roomId)

\* the message a call-room member types
TalkInputs == {<<2, 1, 1>>}

NextTalk ==
  \/ \E s \in Editors, id \in RoomIds : JoinRoom(s, id)
       /\ UNCHANGED meshVars
  \/ \E s \in Editors, id \in RoomIds : JoinCallRoom(s, id, "video")
       /\ UNCHANGED meshVars
  \/ \E s \in Editors, id \in RoomIds : LeaveCallRoom(s, id)
       /\ UNCHANGED meshVars
  \/ \E s \in Editors, id \in RoomIds, m \in TalkInputs : SendCallChat(s, id, m)
       /\ UNCHANGED meshVars
  \/ \E s \in Editors, id \in RoomIds : SendEmoji(s, id)
       /\ UNCHANGED meshVars
  \/ \E s \in Editors : Disconnect(s)
       /\ UNCHANGED meshVars

SpecTalk == Init /\ [][NextTalk]_vars

\* the connections an emission reaches, and whether each gets it once
Reached(em, ev) == {e.to : e \in {x \in em : x.ev = ev}}
ReachedOnce(em, ev) ==
  \A t \in Reached(em, ev) : Cardinality({x \in em : x.ev = ev /\ x.to = t}) = 1

\* C15: an accepted chat message and an emoji reaction sent by a member of a
\* call room reach every member of that call room once, the sender included,
\* and nobody else.
C15_TalkReachesRoomMembers ==
  [][\A s \in Editors, id \in RoomIds :
       /\ ((\E m \in TalkInputs : SendCallChat(s, id, m))
             /\ lastOp' = "chat-message:accepted")
            => /\ Reached(emitted', "new-message") = rooms[roomKey(id, "call")].users
               /\ ReachedOnce(emitted', "new-message")
       /\ SendEmoji(s, id)
            => /\ Reached(emitted', "emoji-reaction") = rooms[roomKey(id, "call")].users
               /\ ReachedOnce(emitted', "emoji-reaction")]_vars

\* ------------------------------------------- the other edits of a code room
LanguageChange(s, roomId, language) ==
  /\ conn[s]
  /\ IF roomId \in DOMAIN rooms /\ rooms[roomId].type = "code"
     THEN /\ rooms' = [rooms EXCEPT ![roomId].language = language]
          /\ emitted' = ToOthers(subs, s, "language-update", roomId)
          /\ lastOp' = "language-change:stored"
     ELSE /\ emitted' = {}
          /\ lastOp' = "language-change:no-room"
          /\ UNCHANGED rooms
  /\ UNCHANGED <<currentRooms, currentRoom, userName, userInfo, subs, conn, rateLimiters, now,
                 timers, joinedAs, accepted, calls>>

ThemeChange(s, roomId, theme) ==
  /\ conn[s]
  /\ IF roomId \in DOMAIN rooms /\ rooms[roomId].type = "code"
     THEN /\ rooms' = [rooms EXCEPT ![roomId].theme = theme]
          /\ emitted' = ToOthers(subs, s, "theme-update", roomId)
          /\ lastOp' = "theme-change:stored"
     ELSE /\ emitted' = {}
          /\ lastOp' = "theme-change:no-room"
          /\ UNCHANGED rooms
  /\ UNCHANGED <<currentRooms, currentRoom, userName, userInfo, subs, conn, rateLimiters, now,
                 timers, joinedAs, accepted, calls>>

\* The handlers write the cursor and the selection on the UserInfo object of
\* the connection, the one object every room's users map holds for it; a
\* null selection is stored as undefined
CursorMove(s, roomId, cursor) ==
  LET r == checkRateLimit(rateLimiters, s, "cursor-move", now) IN
  /\ conn[s]
  /\ CallsLeft(calls, s, "cursor-move", now)
  /\ rateLimiters' = r.rl
  /\ calls' = NoteCall(calls, s, "cursor-move", now, r.ok)
  /\ IF ~r.ok
     THEN /\ emitted' = {}
          /\ lastOp' = "cursor-move:rate-limited"
          /\ UNCHANGED userInfo
     ELSE IF roomId \in DOMAIN rooms /\ s \in rooms[roomId].users
     THEN /\ userInfo' = [userInfo EXCEPT ![s].cursor = cursor]
          /\ emitted' = ToOthers(subs, s, "cursor-update", roomId)
          /\ lastOp' = "cursor-move:sent"
     ELSE /\ emitted' = {}
          /\ lastOp' = "cursor-move:dropped"
          /\ UNCHANGED userInfo
  /\ UNCHANGED <<rooms, currentRooms, currentRoom, userName, subs, conn, now, timers,
                 joinedAs, accepted>>

SelectionChange(s, roomId, selection) ==
  /\ conn[s]
  /\ IF roomId \in DOMAIN rooms /\ s \in rooms[roomId].users
     THEN /\ userInfo' = [userInfo EXCEPT ![s].selection = selection]
          /\ emitted' = ToOthers(subs, s, "selection-update", roomId)
          /\ lastOp' = "selection-change:sent"
     ELSE /\ emitted' = {}
          /\ lastOp' = "selection-change:dropped"
          /\ UNCHANGED userInfo
  /\ UNCHANGED <<rooms, currentRooms, currentRoom, userName, subs, conn, rateLimiters,
                 now, timers, joinedAs, accepted, calls>>

\* the cursor and the selection an editor reports
DeltaCursor == {1}
DeltaSelection == {1}

DeltaCode == {StringPayload(<<2>>)}
DeltaFile == {[name |-> "a", size |-> 1]}
\* the connections that send edits; every connection joins and receives
DeltaSenders == {2}

NextDelta ==
  \/ \E s \in Editors, id \in RoomIds : JoinRoom(s, id)
       /\ UNCHANGED meshVars
  \/ \E s \in Editors, id \in RoomIds : JoinFileRoom(s, id)
       /\ UNCHANGED meshVars
  \/ \E s \in DeltaSenders, id \in RoomIds, c \in DeltaCode : CodeChange(s, id, c)
       /\ UNCHANGED meshVars
  \/ \E s \in DeltaSenders, id \in RoomIds : LanguageChange(s, id, "python")
       /\ UNCHANGED meshVars
  \/ \E s \in DeltaSenders, id \in RoomIds : ThemeChange(s, id, "light")
       /\ UNCHANGED meshVars
  \/ \E s \in DeltaSenders, id \in KindIds, cur \in DeltaCursor : CursorMove(s, id, cur)
       /\ UNCHANGED meshVars
  \/ \E s \in DeltaSenders, id \in KindIds, sel \in DeltaSelection :
       SelectionChange(s, id, sel)
       /\ UNCHANGED meshVars
  \/ \E s \in DeltaSenders, id \in RoomIds, f \in DeltaFile : FileUpload(s, id, f)
       /\ UNCHANGED meshVars

SpecDelta == Init /\ [][NextDelta]_vars

OthersOf(key, s) == rooms[key].users \ {s}

\* C16: an accepted code-change, language-change, theme-change, cursor-move,
\* selection-change or file-upload reaches, as its update event, exactly the
\* members of the room other than the sender.
C16_EditsReachOtherMembers ==
  [][\A s \in DeltaSenders :
       /\ \A id \in RoomIds :
            /\ ((\E c \in DeltaCode : CodeChange(s, id, c)) /\ lastOp' = "code-change:stored")
                 => Reached(emitted', "code-update") = OthersOf(id, s)
            /\ (LanguageChange(s, id, "python") /\ lastOp' = "language-change:stored")
                 => Reached(emitted', "language-update") = OthersOf(id, s)
            /\ (ThemeChange(s, id, "light") /\ lastOp' = "theme-change:stored")
                 => Reached(emitted', "theme-update") = OthersOf(id, s)
            /\ ((\E f \in DeltaFile : FileUpload(s, id, f)) /\ lastOp' = "file-upload:stored")
                 => Reached(emitted', "file-update") = OthersOf(roomKey(id, "file"), s)
       /\ \A id \in KindIds :
            /\ ((\E cur \in DeltaCursor : CursorMove(s, id, cur))
                  /\ lastOp' = "cursor-move:sent")
                 => Reached(emitted', "cursor-update") = OthersOf(id, s)
            /\ ((\E sel \in DeltaSelection : SelectionChange(s, id, sel))
                  /\ lastOp' = "selection-change:sent")
                 => Reached(emitted', "selection-update") = OthersOf(id, s)]_vars

\* ------------------------------------------------------- signaling relay
\* (the handlers of server.ts 335-403 and socket-server.ts 349-417 are the same)
SigCommands == {"webrtc-offer", "webrtc-answer", "webrtc-ice-candidate", "call-user",
                "call-accepted", "call-rejected", "end-call"}
SigBodies == {1, 2}

\* data.targetId names a socket.io room: a connection's own id or a room key
SockTarget(u) == [sock |-> u, key |-> NoVal]
KeyTarget(k) == [sock |-> 0, key |-> k]
SigTargetIds == {SockTarget(u) : u \in Editors} \cup {KeyTarget(roomKey("r", "call"))}

\* the command as a client sends it; fromId is a field the sender may add
SigData == [targetId : SigTargetIds, body : SigBodies, fromId : Editors]

\* the event a command is relayed as
SigEvent(cmd) ==
  IF cmd = "call-user" THEN "incoming-call"
  ELSE IF cmd = "end-call" THEN "call-ended"
  ELSE cmd

\* the offer, answer, candidate or type the relayed event carries (0: none)
SigBody(cmd, data) ==
  IF cmd \in {"webrtc-offer", "webrtc-answer", "webrtc-ice-candidate", "call-user"}
  THEN data.body ELSE 0

\* socket.to(targetId): the sockets in that socket.io room but the sender
SigTargets(s, t) ==
  {u \in Sockets \ {s} : conn[u] /\ (u = t.sock \/ t.key \in subs[u])}

SigEmit(s, cmd, data, from) ==
  /\ conn[s]
  /\ emitted' = {[to |-> u, ev |-> SigEvent(cmd), room |-> data.targetId.key,
                  fromId |-> from,
                  fromName |-> IF cmd \in {"webrtc-offer", "call-user"}
                               THEN <<userName[s]>> ELSE <<>>,
                  body |-> SigBody(cmd, data)] : u \in SigTargets(s, data.targetId)}
  /\ lastOp' = "signal"
  /\ UNCHANGED <<rooms, currentRooms, currentRoom, userName, userInfo, subs, conn, rateLimiters,
                 now, timers, joinedAs, accepted, calls>>

\* variant: the relay forwards the fromId of the command
SignalTrustingSender(s, cmd, data) == SigEmit(s, cmd, data, data.fromId)

\* the seven signaling handlers: fromId is socket.id
Signal(s, cmd, data) == SigEmit(s, cmd, data, s)

NextSignal ==
  \/ \E s \in Editors, id \in RoomIds : JoinRoom(s, id)
       /\ UNCHANGED meshVars
  \/ \E s \in Editors, id \in RoomIds : JoinCallRoom(s, id, "video")
       /\ UNCHANGED meshVars
  \/ \E s \in Editors, cmd \in SigCommands, data \in SigData : Signal(s, cmd, data)
       /\ UNCHANGED meshVars
  \/ \E s \in Editors : Disconnect(s)
       /\ UNCHANGED meshVars

SpecSignal == Init /\ [][NextSignal]_vars

ShareRoom(s, t) == \E key \in DOMAIN rooms : {s, t} \subseteq rooms[key].users

\* what the relay owes the connected target T of a command sent by s
SignalDelivered(s, cmd, data, T) ==
  /\ \E e \in emitted' :
       e.to = T /\ e.ev = SigEvent(cmd) /\ e.body = SigBody(cmd, data)
  /\ \A e \in emitted' : e.fromId = s
  /\ UNCHANGED <<rooms, currentRooms, subs, timers>>

C20_PeerTableIsOtherMembers ==
  \A c \in Clients :
    (joinedCall[c] /\ Quiet(c))
      => DOMAIN peersRef[c] = rooms[roomKey(CallId, "call")].users \ {c}

\* ------------------------------------------------ the mesh and an outsider
\* a connection that is not in the call room
Stranger == NumSockets

\* the outsider emits webrtc-offer with targetId c; the relay, which does not
\* look at rooms, puts the offer on c's socket
StrangerOffer(c) ==
  /\ conn[Stranger]
  /\ joinedCall[c]
  /\ Stranger \notin DOMAIN peersRef[c]
  /\ \A i \in 1..Len(inbox[c]) : inbox[c][i].from # Stranger
  /\ \A t \in tasks[c] : t.target # Stranger
  /\ inbox' = RelaySignal(inbox, Stranger, c, "webrtc-offer", 0)
  /\ UNCHANGED <<joinedCall, mediaOk, localStream, userInfoRef, heap, peersRef, tasks,
                 sent, received, applied, offers, relayVars, disconnectGraceTimers,
                 mountedRef>>

\* the handlers and awaits of negotiation, without the ICE candidates
NextNegotiate ==
  \/ \E c \in Clients : ClientInit(c)
  \/ \E c \in Clients : MediaGranted(c)
  \/ \E c \in Clients : OnCallRoomData(c)
  \/ \E c \in Clients : OnUserJoinedCall(c)
  \/ \E c \in Clients : OnWebrtcOffer(c)
  \/ \E c \in Clients : OnWebrtcAnswer(c)
  \/ \E c \in Clients : \E t \in tasks[c] : ResumeMedia(c, t)
  \/ \E c \in Clients : \E t \in tasks[c] : ResumeCreateOffer(c, t)
  \/ \E c \in Clients : \E t \in tasks[c] : ResumeSetLocalOffer(c, t)
  \/ \E c \in Clients : \E t \in tasks[c] : ResumeSetRemote(c, t)
  \/ \E c \in Clients : \E t \in tasks[c] : ResumeCreateAnswer(c, t)
  \/ \E c \in Clients : \E t \in tasks[c] : ResumeSetLocalAnswer(c, t)

NextCap ==
  \/ NextNegotiate
  \/ \E c \in Clients : StrangerOffer(c)

SpecCap == Init /\ [][NextCap]_vars

\* C19: no client's peer table ever holds more than MAX_MESH_PEERS links.
C19_PeerTableWithinMeshCap ==
  \A c \in Clients : Cardinality(DOMAIN peersRef[c]) <= MAX_MESH_PEERS

\* ------------------------------------ CallRoom.tsx: the life of a PeerLink
\* variant: removePeer clears the connection timeout of every link
removePeerClearingTimeouts(hp, pr, gt, peerId) ==
  [heap |-> [k \in 1..Len(hp) |->
               IF peerId \in DOMAIN pr /\ k = pr[peerId]
               THEN [hp[k] EXCEPT !.closed = TRUE, !.connectionState = "closed",
                                  !.connectionTimeout = NoTimer]
               ELSE [hp[k] EXCEPT !.connectionTimeout = NoTimer]],
   peersRef |-> RemoveKey(pr, peerId),
   grace |-> IF peerId \in DOMAIN gt.map
             THEN [gt EXCEPT !.pending = {t \in @ : t.id # gt.map[peerId]},
                             !.map = RemoveKey(@, peerId)]
             ELSE gt]

\* removePeer on a client's objects hp, peer table pr and grace timers gt
removePeer(hp, pr, gt, peerId) ==
  [heap |-> IF peerId \in DOMAIN pr
            THEN [hp EXCEPT ![pr[peerId]].closed = TRUE,
                            ![pr[peerId]].connectionState = "closed",
                            ![pr[peerId]].connectionTimeout = NoTimer]
            ELSE hp,
   peersRef |-> RemoveKey(pr, peerId),
   grace |-> IF peerId \in DOMAIN gt.map
             THEN [gt EXCEPT !.pending = {t \in @ : t.id # gt.map[peerId]},
                             !.map = RemoveKey(@, peerId)]
             ELSE gt]

\* the page of client c is closed: its socket disconnects, its objects are
\* gone, and the relay's disconnect handler tells the call room
ClientDisconnect(c) ==
  /\ joinedCall[c]
  /\ Disconnect(c)
  /\ inbox' = [t \in Clients |->
                 IF t = c THEN <<>>
                 ELSE IF \E e \in emitted' : e.to = t /\ e.ev = "user-left-call"
                 THEN Append(inbox[t], Msg("user-left-call", c, 0, {}))
                 ELSE inbox[t]]
  /\ tasks' = [tasks EXCEPT ![c] = {}]
  /\ heap' = [heap EXCEPT ![c] = <<>>]
  /\ peersRef' = [peersRef EXCEPT ![c] = <<>>]
  /\ disconnectGraceTimers' =
       [disconnectGraceTimers EXCEPT ![c] = [map |-> <<>>, pending |-> {}, n |-> @.n]]
  /\ localStream' = [localStream EXCEPT ![c] = FALSE]
  /\ UNCHANGED <<joinedCall, mediaOk, userInfoRef, sent, received, applied, offers,
                 mountedRef>>

\* socket.on("user-left-call"): removePeer(data.userId)
OnUserLeftCall(c) ==
  /\ mountedRef[c]
  /\ inbox[c] # <<>>
  /\ Head(inbox[c]).ev = "user-left-call"
  /\ inbox' = [inbox EXCEPT ![c] = Tail(@)]
  /\ LET r == removePeer(heap[c], peersRef[c], disconnectGraceTimers[c],
                         Head(inbox[c]).from)
     IN /\ heap' = [heap EXCEPT ![c] = r.heap]
        /\ peersRef' = [peersRef EXCEPT ![c] = r.peersRef]
        /\ disconnectGraceTimers' = [disconnectGraceTimers EXCEPT ![c] = r.grace]
  /\ UNCHANGED <<joinedCall, mediaOk, localStream, userInfoRef, tasks, sent, received,
                 applied, offers, relayVars, mountedRef>>

\* the remote end of a link of c is there and has negotiated its own link
PeerUp(c, r) ==
  /\ r \in Clients
  /\ conn[r]
  /\ c \in DOMAIN peersRef[r]
  /\ heap[r][peersRef[r][c]].localDescription
  /\ heap[r][peersRef[r][c]].remoteDescription

\* the changes of pc.connectionState the transport can report on link lk;
\* a connection is reported disconnected once it has been connected, and
\* again after it has gone back to connecting from disconnected
CanReach(c, lk, st) ==
  IF st = "connecting"
  THEN /\ lk.connectionState \in {"new", "disconnected"}
       /\ (lk.localDescription \/ lk.remoteDescription)
  ELSE IF st = "connected"
  THEN /\ lk.connectionState \in {"connecting", "disconnected"}
       /\ lk.localDescription /\ lk.remoteDescription
       /\ PeerUp(c, lk.peerId)
  ELSE IF st = "disconnected"
  THEN \/ lk.connectionState = "connected"
       \/ (lk.connectionState = "connecting" /\ lk.disconnectedAt # NoTimer)
  ELSE /\ st = "failed"
       /\ lk.connectionState \in {"connecting", "connected", "disconnected"}

\* pc.onconnectionstatechange of the k-th object of client c
ConnectionStateChange(c, k, st) ==
  LET lk == heap[c][k]
      gt == disconnectGraceTimers[c]
      id == lk.peerId
  IN
  /\ k \in 1..Len(heap[c])
  /\ ~lk.closed
  /\ lk.changes < MaxChanges
  /\ CanReach(c, lk, st)
  /\ IF st = "connected"
     THEN /\ heap' = [heap EXCEPT ![c][k] =
                        [lk EXCEPT !.connectionState = st, !.changes = @ + 1,
                                   !.connectionStatus = "connected",
                                   !.connectionTimeout = NoTimer,
                                   !.disconnectedAt = NoTimer]]
          /\ disconnectGraceTimers' = [disconnectGraceTimers EXCEPT ![c] =
               IF id \in DOMAIN gt.map
               THEN [gt EXCEPT !.pending = {t \in @ : t.id # gt.map[id]},
                               !.map = RemoveKey(@, id)]
               ELSE gt]
          /\ UNCHANGED peersRef
     ELSE IF st = "disconnected"
     THEN /\ heap' = [heap EXCEPT ![c][k] =
                        [lk EXCEPT !.connectionState = st, !.changes = @ + 1,
                                   !.disconnectedAt =
                                      IF @ = NoTimer THEN now ELSE @]]
          /\ disconnectGraceTimers' = [disconnectGraceTimers EXCEPT ![c] =
               [pending |-> gt.pending \cup
                  {[id |-> gt.n + 1, peerId |-> id, due |-> now + DISCONNECT_GRACE_MS]},
                map |-> (id :> gt.n + 1) @@ gt.map,
                n |-> gt.n + 1]]
          /\ UNCHANGED peersRef
     ELSE IF st = "failed"
     THEN LET hp == [heap[c] EXCEPT ![k] =
                       [lk EXCEPT !.connectionState = st, !.changes = @ + 1,
                                  !.connectionStatus = "failed",
                                  !.connectionTimeout = NoTimer]]
              r == removePeer(hp, peersRef[c], gt, id)
          IN /\ heap' = [heap EXCEPT ![c] = r.heap]
             /\ peersRef' = [peersRef EXCEPT ![c] = r.peersRef]
             /\ disconnectGraceTimers' = [disconnectGraceTimers EXCEPT ![c] = r.grace]
     ELSE /\ heap' = [heap EXCEPT ![c][k] =
                        [lk EXCEPT !.connectionState = st, !.changes = @ + 1]]
          /\ UNCHANGED <<peersRef, disconnectGraceTimers>>
  /\ UNCHANGED <<joinedCall, mediaOk, localStream, userInfoRef, inbox, tasks, sent,
                 received, applied, offers, relayVars, mountedRef>>

\* the setTimeout callback armed by a "disconnected" report
GraceTimer(c, t) ==
  LET gt == disconnectGraceTimers[c]
      gt1 == [gt EXCEPT !.pending = @ \ {t}, !.map = RemoveKey(@, t.peerId)]
  IN
  /\ t \in gt.pending
  /\ now >= t.due
  /\ IF /\ t.peerId \in DOMAIN peersRef[c]
        /\ heap[c][peersRef[c][t.peerId]].connectionState = "disconnected"
     THEN LET r == removePeer(heap[c], peersRef[c], gt1, t.peerId)
          IN /\ heap' = [heap EXCEPT ![c] = r.heap]
             /\ peersRef' = [peersRef EXCEPT ![c] = r.peersRef]
             /\ disconnectGraceTimers' = [disconnectGraceTimers EXCEPT ![c] = r.grace]
     ELSE /\ disconnectGraceTimers' = [disconnectGraceTimers EXCEPT ![c] = gt1]
          /\ UNCHANGED <<heap, peersRef>>
  /\ UNCHANGED <<joinedCall, mediaOk, localStream, userInfoRef, inbox, tasks, sent,
                 received, applied, offers, relayVars, mountedRef>>

\* the connection timeout armed by createPeerConnectionForPeer
ConnectionTimeout(c, k) ==
  /\ k \in 1..Len(heap[c])
  /\ heap[c][k].connectionTimeout # NoTimer
  /\ now >= heap[c][k].connectionTimeout
  /\ heap' = [heap EXCEPT ![c][k].connectionTimeout = NoTimer,
                          ![c][k].connectionStatus =
                             IF @ # "connected" THEN "failed" ELSE @]
  /\ UNCHANGED <<joinedCall, mediaOk, localStream, userInfoRef, peersRef, inbox, tasks,
                 sent, received, applied, offers, relayVars, disconnectGraceTimers,
                 mountedRef>>

\* pc.ontrack: the remote description is set and the remote end sends media
OnTrack(c, k) ==
  /\ k \in 1..Len(heap[c])
  /\ ~heap[c][k].closed
  /\ heap[c][k].remoteDescription
  /\ ~heap[c][k].remoteStream
  /\ heap[c][k].peerId \in Clients
  /\ localStream[heap[c][k].peerId]
  /\ heap' = [heap EXCEPT ![c][k].remoteStream = TRUE,
                          ![c][k].connectionStatus = "connected",
                          ![c][k].connectionTimeout = NoTimer]
  /\ UNCHANGED <<joinedCall, mediaOk, localStream, userInfoRef, peersRef, inbox, tasks,
                 sent, received, applied, offers, relayVars, disconnectGraceTimers,
                 mountedRef>>

\* pc.oniceconnectionstatechange reporting connected or completed
IceConnected(c, k) ==
  /\ k \in 1..Len(heap[c])
  /\ ~heap[c][k].closed
  /\ heap[c][k].localDescription /\ heap[c][k].remoteDescription
  /\ PeerUp(c, heap[c][k].peerId)
  /\ (heap[c][k].connectionStatus # "connected"
        \/ heap[c][k].connectionTimeout # NoTimer)
  /\ heap' = [heap EXCEPT ![c][k].connectionStatus = "connected",
                          ![c][k].connectionTimeout = NoTimer]
  /\ UNCHANGED <<joinedCall, mediaOk, localStream, userInfoRef, peersRef, inbox, tasks,
                 sent, received, applied, offers, relayVars, disconnectGraceTimers,
                 mountedRef>>

LinkStates == {"connecting", "connected", "disconnected", "failed"}
\* the clients whose transport reports are followed
Watched == {1}

NextLink ==
  \/ NextNegotiate
  \/ \E c \in Watched, k \in 1..MaxLinks, st \in LinkStates : ConnectionStateChange(c, k, st)
  \/ \E c \in Clients : \E t \in disconnectGraceTimers[c].pending : GraceTimer(c, t)
  \/ \E c \in Clients, k \in 1..MaxLinks : ConnectionTimeout(c, k)
  \/ \E c \in Clients, k \in 1..MaxLinks : OnTrack(c, k)
  \/ \E c \in Clients, k \in 1..MaxLinks : IceConnected(c, k)
  \/ Tick /\ UNCHANGED meshVars

SpecLink == Init /\ [][NextLink]_vars

\* C11: a grace timer removes a link only while the transport reports it
\* disconnected, and not before DISCONNECT_GRACE_MS has passed since the first
\* "disconnected" report that followed the last "connected" report.
C11_RemovedOnlyAfterGrace ==
  [][\A c \in Clients : \A t \in disconnectGraceTimers[c].pending :
       (/\ GraceTimer(c, t)
        /\ t.peerId \in DOMAIN peersRef[c]
        /\ t.peerId \notin DOMAIN peersRef'[c])
         => LET lk == heap[c][peersRef[c][t.peerId]]
            IN /\ lk.connectionState = "disconnected"
               /\ now >= lk.disconnectedAt + DISCONNECT_GRACE_MS]_vars

\* ------------------------------------------------ departures from the call
NextLeave ==
  \/ NextLink
  \/ \E c \in Clients : ClientDisconnect(c)
  \/ \E c \in Clients : OnUserLeftCall(c)

SpecLeave == Init /\ [][NextLeave]_vars

\* overallStatus from the local stream ls (isStreamReady is set with it) and
\* the peer table pr (peerStates is synced after every change of the table);
\* connectionError is never set
overallStatus(ls, pr) ==
  IF ~ls THEN "connecting"
  ELSE IF DOMAIN pr = {} THEN "waiting"
  ELSE "active"

\* C14: the step that handles user-left-call for remote y leaves no entry for
\* y in the peer table, the connection it held for y closed with no
\* connection timeout and no grace timer for y armed, and, if the table is
\* now empty, the aggregated view waiting.
C14_DepartureRemovesLinkAtOnce ==
  [][\A c \in Clients :
       (OnUserLeftCall(c) /\ Head(inbox[c]).from \in DOMAIN peersRef[c]) =>
         LET y == Head(inbox[c]).from
             k == peersRef[c][y]
         IN /\ y \notin DOMAIN peersRef'[c]
            /\ heap'[c][k].closed
            /\ heap'[c][k].connectionTimeout = NoTimer
            /\ \A t \in disconnectGraceTimers'[c].pending : t.peerId # y
            /\ DOMAIN peersRef'[c] = {}
                 => overallStatus(localStream'[c], peersRef'[c]) = "waiting"]_vars

\* ------------------------------------------------- two clients connect

\* the socket callbacks of the call-room client and the continuations of
\* their awaits
Callbacks ==
  \/ \E c \in Clients : OnCallRoomData(c)
  \/ \E c \in Clients : OnUserJoinedCall(c)
  \/ \E c \in Clients : OnWebrtcOffer(c)
  \/ \E c \in Clients : OnWebrtcAnswer(c)
  \/ \E c \in Clients : OnIceCandidate(c)
  \/ \E c \in Clients : \E t \in tasks[c] : ResumeMedia(c, t)
  \/ \E c \in Clients : \E t \in tasks[c] : ResumeCreateOffer(c, t)
  \/ \E c \in Clients : \E t \in tasks[c] : ResumeSetLocalOffer(c, t)
  \/ \E c \in Clients : \E t \in tasks[c] : ResumeSetRemote(c, t)
  \/ \E c \in Clients : \E t \in tasks[c] : ResumeFlush(c, t)
  \/ \E c \in Clients : \E t \in tasks[c] : ResumeCreateAnswer(c, t)
  \/ \E c \in Clients : \E t \in tasks[c] : ResumeSetLocalAnswer(c, t)

RemoteTrack == \E c \in Clients, k \in 1..MaxLinks : OnTrack(c, k)

\* negotiation with the remote stream arriving and the connection timeout
\* running; the transport reports no failure
NextConnect ==
  \/ \E c \in Clients : ClientInit(c)
  \/ \E c \in Clients : MediaGranted(c)
  \/ \E c, r \in Clients : c # r /\ IceCandidate(c, r)
  \/ Callbacks
  \/ RemoteTrack
  \/ \E c \in Clients, k \in 1..MaxLinks : ConnectionTimeout(c, k)
  \/ Tick /\ UNCHANGED meshVars

\* every delivered message is handled and every await settles; the remote
\* stream arrives on a link whose remote description is set
ConnectFair == WF_vars(Callbacks) /\ WF_vars(RemoteTrack)

SpecConnect == Init /\ [][NextConnect]_vars /\ ConnectFair

\* client c holds a link for r with both descriptions set and status connected
Connected(c, r) ==
  /\ r \in DOMAIN peersRef[c]
  /\ heap[c][peersRef[c][r]].localDescription
  /\ heap[c][peersRef[c][r]].remoteDescription
  /\ heap[c][peersRef[c][r]].connectionStatus = "connected"

\* client 2 has joined the call room that client 1 was in, both with a
\* local stream: the snapshot of the two members and the join notification
\* are still to be handled
JoinedSecond ==
  /\ localStream[1] /\ localStream[2]
  /\ \E i \in 1..Len(inbox[2]) :
       inbox[2][i].ev = "call-room-data" /\ inbox[2][i].users = {1, 2}
  /\ \E i \in 1..Len(inbox[1]) :
       inbox[1][i].ev = "user-joined-call" /\ inbox[1][i].from = 2

\* C13: when client 2 joins the call room after client 1, both with local
\* media, then eventually client 1 has sent exactly one offer to client 2,
\* client 2 none, and each holds a link for the other with the offer and
\* the answer set and status connected.
C13_BothLinksConnect ==
  JoinedSecond ~>
    (Connected(1, 2) /\ Connected(2, 1) /\ offers[1][2] = 1 /\ offers[2][1] = 0)

C13_Witness ==
  /\ Connected(1, 2) /\ Connected(2, 1)
  /\ offers[1][2] = 1 /\ offers[2][1] = 0
  /\ applied[2][1] # <<>>

\* ------------------------------------------------- connection timeout

\* the k-th object of client c is the link the peer table holds for its remote
Current(c, k) ==
  /\ heap[c][k].peerId \in DOMAIN peersRef[c]
  /\ peersRef[c][heap[c][k].peerId] = k

\* C21: the connection timeout fires only on a link that is in the peer
\* table, open and not connected, and the step that fires it leaves the link
\* failed, its peer connection closed and its entry out of the peer table.
C21_TimeoutFailsAndTearsDown ==
  [][\A c \in Clients, k \in 1..MaxLinks :
       ConnectionTimeout(c, k) =>
         /\ Current(c, k)
         /\ ~heap[c][k].closed
         /\ heap[c][k].connectionStatus # "connected"
         /\ heap'[c][k].connectionStatus = "failed"
         /\ heap'[c][k].closed
         /\ heap[c][k].peerId \notin DOMAIN peersRef'[c]]_vars

\* ------------------------------------------------- aggregated view

\* the view the peer table pr of client c stands for: waiting with no link,
\* active with a connected link, connecting otherwise
TableView(c, pr) ==
  IF DOMAIN pr = {} THEN "waiting"
  ELSE IF \E id \in DOMAIN pr : heap[c][pr[id]].connectionStatus = "connected"
  THEN "active"
  ELSE "connecting"

\* C22: the status a client in the call room shows is waiting when its peer
\* table is empty, active when some link of the table is connected, and
\* connecting otherwise.
C22_ViewIsFunctionOfPeerTable ==
  \A c \in Clients :
    joinedCall[c] => overallStatus(localStream[c], peersRef[c]) = TableView(c, peersRef[c])

\* ------------------------------------------------- teardown

\* cleanup on one client's objects hp, peer table pr and grace timers gt:
\* every link of the table is closed with its connection timeout cleared, the
\* table is emptied, the grace timers the map holds are cleared
cleanup(hp, pr, gt) ==
  LET held == {pr[id] : id \in DOMAIN pr}
      kept == {gt.map[id] : id \in DOMAIN gt.map}
  IN [heap |-> [k \in 1..Len(hp) |->
                  IF k \in held
                  THEN [hp[k] EXCEPT !.closed = TRUE, !.connectionState = "closed",
                                     !.connectionTimeout = NoTimer]
                  ELSE hp[k]],
      peersRef |-> <<>>,
      grace |-> [gt EXCEPT !.pending = {t \in @ : t.id \notin kept}, !.map = <<>>]]

\* endCall: cleanup(), then the router leaves the page, which unmounts the
\* component in a later step
EndCall(c) ==
  /\ joinedCall[c]
  /\ mountedRef[c]
  /\ LET r == cleanup(heap[c], peersRef[c], disconnectGraceTimers[c])
     IN /\ heap' = [heap EXCEPT ![c] = r.heap]
        /\ peersRef' = [peersRef EXCEPT ![c] = r.peersRef]
        /\ disconnectGraceTimers' = [disconnectGraceTimers EXCEPT ![c] = r.grace]
  /\ localStream' = [localStream EXCEPT ![c] = FALSE]
  /\ UNCHANGED <<joinedCall, mediaOk, userInfoRef, inbox, tasks, sent, received,
                 applied, offers, relayVars, mountedRef>>

\* the effect's cleanup on unmount: mountedRef is cleared, cleanup() runs,
\* leave-call-room is emitted and handled by the relay, the socket handlers
\* are removed
Unmount(c) ==
  /\ joinedCall[c]
  /\ mountedRef[c]
  /\ mountedRef' = [mountedRef EXCEPT ![c] = FALSE]
  /\ LET r == cleanup(heap[c], peersRef[c], disconnectGraceTimers[c])
     IN /\ heap' = [heap EXCEPT ![c] = r.heap]
        /\ peersRef' = [peersRef EXCEPT ![c] = r.peersRef]
        /\ disconnectGraceTimers' = [disconnectGraceTimers EXCEPT ![c] = r.grace]
  /\ localStream' = [localStream EXCEPT ![c] = FALSE]
  /\ LeaveCallRoom(c, CallId)
  /\ inbox' = [t \in Clients |->
                 IF \E e \in emitted' : e.to = t /\ e.ev = "user-left-call"
                 THEN Append(inbox[t], Msg("user-left-call", c, 0, {}))
                 ELSE inbox[t]]
  /\ UNCHANGED <<joinedCall, mediaOk, userInfoRef, tasks, sent, received, applied,
                 offers>>

\* an event arrives for a component whose handlers are removed
Unhandled(c) ==
  /\ ~mountedRef[c]
  /\ inbox[c] # <<>>
  /\ inbox' = [inbox EXCEPT ![c] = Tail(@)]
  /\ UNCHANGED <<joinedCall, mediaOk, localStream, userInfoRef, heap, peersRef, tasks,
                 sent, received, applied, offers, relayVars, disconnectGraceTimers,
                 mountedRef>>

NextTeardown ==
  \/ NextLink
  \/ \E c \in Clients : OnUserLeftCall(c)
  \/ \E c \in Clients : EndCall(c)
  \/ \E c \in Clients : Unmount(c)
  \/ \E c \in Clients : Unhandled(c)

SpecTeardown == Init /\ [][NextTeardown]_vars

\* the state of client c's links as removePeer and cleanup take and return it
LinkState(c) ==
  [heap |-> heap[c], peersRef |-> peersRef[c], grace |-> disconnectGraceTimers[c]]

\* no connection timeout of hp and no grace timer of gt is armed
NoTimerArmed(hp, gt) ==
  /\ \A k \in 1..Len(hp) : hp[k].connectionTimeout = NoTimer
  /\ gt.pending = {}

\* C23: in every state, removePeer(id) leaves no entry for id, the connection
\* the entry held closed with no connection timeout, and no grace timer for
\* id armed; a second removePeer(id), and removePeer of an id with no link,
\* change nothing; cleanup leaves the peer table empty and no timer armed,
\* and changes nothing on an empty table.
C23_TeardownCompleteAndIdempotent ==
  \A c \in Clients :
    /\ \A id \in Clients \ {c} :
         LET r == removePeer(heap[c], peersRef[c], disconnectGraceTimers[c], id)
         IN /\ id \notin DOMAIN r.peersRef
            /\ id \in DOMAIN peersRef[c] =>
                 /\ r.heap[peersRef[c][id]].closed
                 /\ r.heap[peersRef[c][id]].connectionTimeout = NoTimer
            /\ \A t \in r.grace.pending : t.peerId # id
            /\ removePeer(r.heap, r.peersRef, r.grace, id) = r
            /\ id \notin DOMAIN peersRef[c] => r = LinkState(c)
    /\ LET k == cleanup(heap[c], peersRef[c], disconnectGraceTimers[c])
       IN /\ k.peersRef = <<>>
          /\ NoTimerArmed(k.heap, k.grace)
          /\ cleanup(k.heap, k.peersRef, k.grace) = k
          /\ peersRef[c] = <<>> => k = LinkState(c)

\* ------------------------------------------------- denied commands

NextLimit ==
  \/ \E s \in Editors, id \in RoomIds : JoinRoom(s, id)
       /\ UNCHANGED meshVars
  \/ \E s \in DeltaSenders, id \in RoomIds, c \in DeltaCode : CodeChange(s, id, c)
       /\ UNCHANGED meshVars
  \/ \E s \in DeltaSenders, id \in RoomIds, m \in TalkInputs : ChatMessage(s, id, m, "code")
       /\ UNCHANGED meshVars
  \/ \E s \in DeltaSenders, id \in RoomIds, cur \in DeltaCursor : CursorMove(s, id, cur)
       /\ UNCHANGED meshVars
  \/ Tick /\ UNCHANGED meshVars

SpecLimit == Init /\ [][NextLimit]_vars

\* checkRateLimit denies a call of connection s for event kind ev now
Denied(s, ev) == ~checkRateLimit(rateLimiters, s, ev, now).ok

\* the step changes nothing of the relay but its trace of the last operation
Silent ==
  /\ emitted' = {}
  /\ UNCHANGED <<rooms, rateLimiters, subs, currentRooms, currentRoom, userName, userInfo,
                 timers, accepted>>

\* C24: a code-change, chat-message or cursor-move that checkRateLimit
\* denies changes no room, emits nothing to anybody and leaves the limiter
\* table, with the sender's count and resetAt, as it was.
C24_DeniedCommandIsSilent ==
  [][\A s \in Editors, id \in RoomIds :
       /\ (Denied(s, "code-change") /\ \E c \in DeltaCode : CodeChange(s, id, c))
            => Silent
       /\ (Denied(s, "chat-message")
             /\ \E m \in TalkInputs : ChatMessage(s, id, m, "code"))
            => Silent
       /\ (Denied(s, "cursor-move") /\ \E cur \in DeltaCursor : CursorMove(s, id, cur))
            => Silent]_vars

\* a room with two members in which one connection has had a code-change, a
\* chat-message and a cursor-move denied in the running window
C24_Witness ==
  /\ "r" \in DOMAIN rooms
  /\ rooms["r"].users = Editors
  /\ \E s \in DOMAIN calls :
       \A ev \in DOMAIN RATE_LIMITS :
         /\ ev \in DOMAIN calls[s]
         /\ \E i \in 1..Len(calls[s][ev].results) : ~calls[s][ev].results[i]

\* ------------------------------------------------- unknown room, malformed command

NextDrop ==
  \/ \E s \in Editors, id \in RoomIds : JoinRoom(s, id)
       /\ UNCHANGED meshVars
  \/ \E s \in Editors, id \in RoomIds : JoinFileRoom(s, id)
       /\ UNCHANGED meshVars
  \/ \E s \in DeltaSenders, id \in RoomIds, c \in CodeInputs : CodeChange(s, id, c)
       /\ UNCHANGED meshVars
  \/ \E s \in DeltaSenders, id \in RoomIds, f \in FileInputs : FileUpload(s, id, f)
       /\ UNCHANGED meshVars
  \/ \E s \in DeltaSenders, id \in RoomIds : FileRemove(s, id)
       /\ UNCHANGED meshVars
  \/ \E s \in DeltaSenders, id \in RoomIds : EmojiReaction(s, id)
       /\ UNCHANGED meshVars

SpecDrop == Init /\ [][NextDrop]_vars

\* the step changes no room and emits nothing
Dropped == rooms' = rooms /\ emitted' = {}

\* C25: a code-change, file-upload, file-remove or emoji-reaction that names
\* a room absent from the room table, and a code-change or file-upload whose
\* payload is not a string or not a file, changes no room and emits nothing.
C25_UnknownRoomOrMalformedDropped ==
  [][\A s \in Editors, id \in RoomIds :
       /\ \A c \in CodeInputs :
            (CodeChange(s, id, c) /\ (id \notin DOMAIN rooms \/ c.typ # "string"))
              => Dropped
       /\ \A f \in FileInputs :
            (FileUpload(s, id, f)
               /\ (roomKey(id, "file") \notin DOMAIN rooms \/ f = NoFile))
              => Dropped
       /\ (FileRemove(s, id) /\ roomKey(id, "file") \notin DOMAIN rooms) => Dropped
       /\ (EmojiReaction(s, id) /\ roomKey(id, "call") \notin DOMAIN rooms)
            => Dropped]_vars

\* ------------------------------------------------- join-room replies

\* the room-data payload the join-room handler builds from the room
RoomData(room) ==
  [code |-> room.code, language |-> room.language, theme |-> room.theme,
   users |-> room.users, messages |-> SliceLast(room.messages, ROOM_DATA_MESSAGES)]

NextJoin ==
  \/ \E s \in Sockets, id \in RoomIds : JoinRoom(s, id)
       /\ UNCHANGED meshVars
  \/ \E s \in Editors, id \in RoomIds, m \in TalkInputs : ChatMessage(s, id, m, "code")
       /\ UNCHANGED meshVars
  \/ \E s \in Sockets : Disconnect(s)
       /\ UNCHANGED meshVars

SpecJoin == Init /\ [][NextJoin]_vars

\* the last Min(n, Len(q)) elements of q, in order
LastOf(q, n) ==
  LET m == Min(n, Len(q)) IN [i \in 1..m |-> q[Len(q) - m + i]]

\* C26: after an accepted join-room the sender is a member, room-data goes
\* to the sender alone with the room's member set (the sender in it), its
\* code, language and theme and its last min(50, n) messages in order, and
\* user-joined goes to every other member and not to the sender.
C26_JoinRepliesThenAnnounces ==
  [][\A s \in Sockets, id \in RoomIds :
       (JoinRoom(s, id) /\ lastOp' \in {"join:created", "join:added"}) =>
         /\ s \in rooms'[id].users
         /\ Reached(emitted', "room-data") = {s}
         /\ s \in RoomData(rooms'[id]).users
         /\ RoomData(rooms'[id]).users = rooms'[id].users
         /\ RoomData(rooms'[id]).code = rooms'[id].code
         /\ RoomData(rooms'[id]).language = rooms'[id].language
         /\ RoomData(rooms'[id]).theme = rooms'[id].theme
         /\ RoomData(rooms'[id]).messages = LastOf(rooms'[id].messages, ROOM_DATA_MESSAGES)
         /\ Reached(emitted', "user-joined") = rooms'[id].users \ {s}]_vars

\* ------------------------------------------------- phase changes

\* the changes of connectionStatus of a link that stays open
PhaseStep(a, b) ==
  \/ a = b
  \/ a = "connecting" /\ b \in {"connected", "failed"}
  \/ a = "connected" /\ b = "failed"

\* C27: in every step a link either ends closed or keeps its status or goes
\* from connecting to connected or failed, or from connected to failed; a
\* failed link never becomes connected.
C27_OnlyForwardPhaseChanges ==
  [][\A c \in Clients : \A k \in 1..Len(heap[c]) :
       k <= Len(heap'[c]) =>
         \/ heap'[c][k].closed
         \/ PhaseStep(heap[c][k].connectionStatus, heap'[c][k].connectionStatus)]_vars

\* ------------------------------------------------- overlapping callbacks

\* a handler of client c for remote p is suspended at an await
Suspended(c, p) ==
  \E t \in tasks[c] : t.target = p \/ \E i \in 1..Len(t.rest) : t.rest[i] = p

\* the step starts a socket handler of client c that looks up, writes or
\* replaces the link for remote p
StartsHandlerFor(c, p) ==
  \/ OnCallRoomData(c) /\ p \in Head(inbox[c]).users \ {c}
  \/ OnUserJoinedCall(c) /\ Head(inbox[c]).from = p /\ userInfoRef[c] \notin {0, p}
  \/ OnWebrtcOffer(c) /\ Head(inbox[c]).from = p
  \/ OnWebrtcAnswer(c) /\ Head(inbox[c]).from = p
  \/ OnIceCandidate(c) /\ Head(inbox[c]).from = p

\* C28: while a handler of a client for remote p is suspended at an await,
\* no other handler of that client for p starts.
C28_NoOverlapOnOneLink ==
  [][\A c \in Clients, p \in Clients :
       Suspended(c, p) => ~StartsHandlerFor(c, p)]_vars

\* ------------------------------------------------- deletion after the grace period

\* leave-call-room sent by a member of the call room
MemberLeave(s, roomId) ==
  /\ roomKey(roomId, "call") \in DOMAIN rooms
  /\ s \in rooms[roomKey(roomId, "call")].users
  /\ LeaveCallRoom(s, roomId)

\* rooms joined, left by their members and evicted while the clock runs
NextGrace ==
  \/ \E s \in Editors, id \in RoomIds : JoinRoom(s, id)
       /\ UNCHANGED meshVars
  \/ \E s \in Editors, id \in RoomIds : JoinCallRoom(s, id, "video")
       /\ UNCHANGED meshVars
  \/ \E s \in Editors, id \in RoomIds : MemberLeave(s, id)
       /\ UNCHANGED meshVars
  \/ \E s \in Editors : Disconnect(s)
       /\ UNCHANGED meshVars
  \/ RelayEvict
  \/ Tick /\ UNCHANGED meshVars

SpecGrace == Init /\ [][NextGrace]_vars

\* the eviction timers armed for room key that have not fired: under
\* NextGrace a timer is armed by the step that empties the room, and by no
\* other step, due EVICT_DELAY after it
TimersOf(key) == {u \in timers : u.key = key}

\* C29: a step deletes a room only if the room has no member and every
\* eviction timer armed for it is due, that is, the step that last emptied
\* the room is at least EVICT_DELAY back.
C29_DeletedOnlyAfterFullGrace ==
  [][\A key \in DOMAIN rooms :
       key \notin DOMAIN rooms' =>
         /\ rooms[key].users = {}
         /\ \A u \in TimersOf(key) : now >= u.due]_vars

\* ------------------------------------------------- every emptying arms a timer

\* C30: every step that takes the last member out of a room arms an eviction
\* timer for the room, due EVICT_DELAY later, and no room stays in the room
\* table with zero members forever.
C30_EmptyingArmsEviction ==
  /\ [][\A key \in DOMAIN rooms :
          (rooms[key].users # {} /\ key \in DOMAIN rooms' /\ rooms'[key].users = {})
            => [key |-> key, due |-> now + EVICT_DELAY] \in timers']_vars
  /\ \A key \in RoomKeys :
       []<>(key \notin DOMAIN rooms \/ rooms[key].users # {})

\* ------------------------------------------------- links of one client side by side

\* the call room with its transport reports, departures and an outsider's
\* offer, so that a client holds links for two remotes at once
\* the outsider sends its offer to a client that has had no link for it
FirstStrangerOffer(c) ==
  /\ \A k \in 1..Len(heap[c]) : heap[c][k].peerId # Stranger
  /\ StrangerOffer(c)

NextSide ==
  \/ NextNegotiate
  \/ \E c \in Watched : FirstStrangerOffer(c)
  \/ \E c \in Watched, k \in 1..MaxLinks, st \in LinkStates : ConnectionStateChange(c, k, st)
  \/ \E c \in Watched : \E t \in disconnectGraceTimers[c].pending : GraceTimer(c, t)
  \/ \E c \in Watched, k \in 1..MaxLinks : ConnectionTimeout(c, k)
  \/ \E c \in Clients \ Watched : ClientDisconnect(c)
  \/ \E c \in Watched : OnUserLeftCall(c)
  \/ Tick /\ UNCHANGED meshVars

SpecSide == Init /\ [][NextSide]_vars

\* the grace timers of gt armed for remotes other than p
GraceOfOthers(gt, p) ==
  [pending |-> {t \in gt.pending : t.peerId # p},
   map |-> [q \in DOMAIN gt.map \ {p} |-> gt.map[q]]]

\* the step leaves every link of client c for a remote other than p as it was:
\* the object with its connection, status, queue and connection timeout, its
\* entry in the peer table and its grace timer
OtherLinksUnchanged(c, p) ==
  /\ \A j \in 1..Len(heap[c]) :
       heap[c][j].peerId # p => (j <= Len(heap'[c]) /\ heap'[c][j] = heap[c][j])
  /\ \A q \in DOMAIN peersRef[c] \ {p} :
       q \in DOMAIN peersRef'[c] /\ peersRef'[c][q] = peersRef[c][q]
  /\ GraceOfOthers(disconnectGraceTimers'[c], p) = GraceOfOthers(disconnectGraceTimers[c], p)

\* C31: the connection timeout, a transport failure, the expiry of the grace
\* timer, the replacement and the removal of the link of a client for remote
\* p leave every link of that client for another remote unchanged.
C31_OtherLinksUntouched ==
  [][\A c \in Clients :
       /\ \A k \in 1..Len(heap[c]) :
            /\ ConnectionTimeout(c, k) => OtherLinksUnchanged(c, heap[c][k].peerId)
            /\ ConnectionStateChange(c, k, "failed")
                 => OtherLinksUnchanged(c, heap[c][k].peerId)
       /\ \A t \in disconnectGraceTimers[c].pending :
            GraceTimer(c, t) => OtherLinksUnchanged(c, t.peerId)
       /\ OnUserLeftCall(c) => OtherLinksUnchanged(c, Head(inbox[c]).from)
       /\ OnUserJoinedCall(c) => OtherLinksUnchanged(c, Head(inbox[c]).from)
       /\ OnWebrtcOffer(c) => OtherLinksUnchanged(c, Head(inbox[c]).from)
       /\ \A t \in tasks[c] :
            (t.h = "webrtc-offer" /\ ResumeMedia(c, t))
              => OtherLinksUnchanged(c, t.target)]_vars

\* client 1 holds an open link for the outsider with its connection timeout
\* armed, after its link for client 2 has been removed
C31_Witness ==
  /\ Stranger \in DOMAIN peersRef[1]
  /\ ~heap[1][peersRef[1][Stranger]].closed
  /\ heap[1][peersRef[1][Stranger]].connectionTimeout # NoTimer
  /\ 2 \notin DOMAIN peersRef[1]
  /\ \E k \in 1..Len(heap[1]) :
       heap[1][k].peerId = 2 /\ heap[1][k].closed
         /\ k < peersRef[1][Stranger]

\* ------------------------------------------------- cursors of a connection in several rooms

CursorInputs == {1, 2}
\* a selection, or null (stored as undefined)
SelectionInputs == {0, 1}

NextCursor ==
  \/ \E s \in Editors, id \in RoomIds : JoinRoom(s, id)
       /\ UNCHANGED meshVars
  \/ \E s \in Editors, id \in RoomIds : JoinFileRoom(s, id)
       /\ UNCHANGED meshVars
  \/ \E s \in DeltaSenders, id \in KindIds, cur \in CursorInputs : CursorMove(s, id, cur)
       /\ UNCHANGED meshVars
  \/ \E s \in DeltaSenders, id \in KindIds, sel \in SelectionInputs :
       SelectionChange(s, id, sel)
       /\ UNCHANGED meshVars
  \/ \E s \in Editors : Disconnect(s)
       /\ UNCHANGED meshVars

SpecCursor == Init /\ [][NextCursor]_vars

\* room.users of room table rm: each member id with the UserInfo object of
\* its connection, read through names nm and cursors ui
MemberRecords(rm, nm, ui, key) ==
  [u \in rm[key].users |->
     [id |-> u, name |-> nm[u], cursor |-> ui[u].cursor, selection |-> ui[u].selection]]

\* C32: a cursor-move or selection-change addressed to room R leaves, in R,
\* the record of every member but the sender as it was, and leaves every
\* other room as it was, the record it holds for the sender included.
C32_CursorStaysInItsRoom ==
  [][\A s \in DeltaSenders, id \in KindIds :
       ((\E cur \in CursorInputs : CursorMove(s, id, cur))
          \/ (\E sel \in SelectionInputs : SelectionChange(s, id, sel)))
         => /\ DOMAIN rooms' = DOMAIN rooms
            /\ \A key \in DOMAIN rooms :
                 /\ rooms'[key] = rooms[key]
                 /\ \A u \in rooms[key].users :
                      (key # id \/ u # s) =>
                        MemberRecords(rooms', userName', userInfo', key)[u]
                          = MemberRecords(rooms, userName, userInfo, key)[u]]_vars

\* ------------------------------------------------- limiter entries side by side

\* rate-limited commands of several connections on the running clock
NextShard ==
  \/ \E s \in Sockets, id \in RoomIds, c \in DeltaCode : CodeChange(s, id, c)
       /\ UNCHANGED meshVars
  \/ \E s \in DeltaSenders, id \in RoomIds, m \in TalkInputs : ChatMessage(s, id, m, "code")
       /\ UNCHANGED meshVars
  \/ \E s \in Sockets : Disconnect(s)
       /\ UNCHANGED meshVars
  \/ Tick /\ UNCHANGED meshVars

SpecShard == Init /\ [][NextShard]_vars

\* the entry of limiter table rl for connection s and kind k (count 0: none)
Entry(rl, s, k) ==
  IF s \in DOMAIN rl /\ k \in DOMAIN rl[s] THEN rl[s][k]
  ELSE [count |-> 0, resetAt |-> 0]

\* the limiter table that holds the entry of (s, k) in rl and nothing else
OnlyEntry(rl, s, k) ==
  IF s \in DOMAIN rl /\ k \in DOMAIN rl[s] THEN (s :> (k :> rl[s][k])) ELSE <<>>

\* C33: in every state a call checkRateLimit(s, k) returns what it returns
\* on the table that holds the entry of (s, k) alone, and leaves every other
\* entry as it was; a connection that has disconnected has no entry.
C33_LimiterEntriesIndependent ==
  /\ \A s \in Sockets, k \in DOMAIN RATE_LIMITS :
       LET r == checkRateLimit(rateLimiters, s, k, now)
           alone == checkRateLimit(OnlyEntry(rateLimiters, s, k), s, k, now)
       IN /\ r.ok = alone.ok
          /\ Entry(r.rl, s, k) = Entry(alone.rl, s, k)
          /\ \A s2 \in Sockets, k2 \in DOMAIN RATE_LIMITS :
               (s2 # s \/ k2 # k) => Entry(r.rl, s2, k2) = Entry(rateLimiters, s2, k2)
  /\ \A s \in Sockets : ~conn[s] => s \notin DOMAIN rateLimiters

\* connection 2 is denied a code-change while its chat-message and the
\* code-change of connection 1, which both have an entry, pass; connection 3
\* has disconnected
C33_Witness ==
  /\ Denied(2, "code-change")
  /\ Entry(rateLimiters, 2, "chat-message").count > 0
  /\ ~Denied(2, "chat-message")
  /\ Entry(rateLimiters, 1, "code-change").count > 0
  /\ ~Denied(1, "code-change")
  /\ ~conn[3]

\* ------------------------------------------------- the file of a file room

\* the file-room-data payload the join-file-room handler builds from the room
FileRoomData(room) ==
  [file |-> room.file, userCount |-> Cardinality(room.users), users |-> room.users]

NextFile ==
  \/ \E s \in Editors, id \in RoomIds : JoinFileRoom(s, id)
       /\ UNCHANGED meshVars
  \/ \E s \in Editors, id \in RoomIds, f \in FileInputs : FileUpload(s, id, f)
       /\ UNCHANGED meshVars
  \/ \E s \in Editors, id \in RoomIds : FileRemove(s, id)
       /\ UNCHANGED meshVars
  \/ \E s \in Editors : Disconnect(s)
       /\ UNCHANGED meshVars

SpecFile == Init /\ [][NextFile]_vars

\* C34: an accepted file-upload leaves the uploaded file as the one stored
\* file of the room; a file-remove leaves no file stored and sends
\* file-removed to every member of the room, the sender included; the reply
\* to an accepted join-file-room goes to the sender and carries the file the
\* room stores then, or none.
C34_OneFileReplacedRemovedReported ==
  [][\A s \in Editors, id \in RoomIds :
       LET key == roomKey(id, "file") IN
       /\ \A f \in FileInputs :
            (FileUpload(s, id, f) /\ lastOp' = "file-upload:stored")
              => rooms'[key].file = f
       /\ (FileRemove(s, id) /\ lastOp' = "file-remove:done")
            => /\ rooms'[key].file = NoFile
               /\ rooms[key].users \subseteq Reached(emitted', "file-removed")
       /\ (JoinFileRoom(s, id) /\ lastOp' \in {"join:created", "join:added"})
            => /\ Reached(emitted', "file-room-data") = {s}
               /\ FileRoomData(rooms'[key]).file = rooms'[key].file
               /\ rooms'[key].file = IF key \in DOMAIN rooms THEN rooms[key].file
                                     ELSE NoFile]_vars

\* ------------------------------------------------- after the call has ended

\* the step puts a signaling message of client c on another client's socket
SendsSignal(c) ==
  \E t \in Clients \ {c} :
    /\ Len(inbox'[t]) > Len(inbox[t])
    /\ inbox'[t][Len(inbox'[t])].from = c
    /\ inbox'[t][Len(inbox'[t])].ev \in
         {"webrtc-offer", "webrtc-answer", "webrtc-ice-candidate"}

\* C35: endCall and the unmount leave the client with no link and no link
\* timer armed; a client whose component is unmounted has no link and no
\* link timer armed in any later state, and no step creates a peer
\* connection for it or sends a signaling message of it, also not the
\* continuation of a handler that was suspended when the call ended.
C35_NothingAfterTermination ==
  /\ [][\A c \in Clients :
          /\ (EndCall(c) \/ Unmount(c))
               => /\ peersRef'[c] = <<>>
                  /\ NoTimerArmed(heap'[c], disconnectGraceTimers'[c])
          /\ ~mountedRef[c]
               => /\ Len(heap'[c]) = Len(heap[c])
                  /\ ~SendsSignal(c)]_vars
  /\ [](\A c \in Clients :
          ~mountedRef[c]
            => /\ peersRef[c] = <<>>
               /\ NoTimerArmed(heap[c], disconnectGraceTimers[c]))

\* ------------------------------------------------- members and subscribers

\* C36: in every state and for every room of the room table, the members of
\* the room are the open connections subscribed to the room's broadcasts.
C36_MembersAreOpenSubscribers ==
  \A key \in DOMAIN rooms : \A s \in Sockets :
    s \in rooms[key].users <=> (conn[s] /\ key \in subs[s])

\* ------------------------------------------------- set-username and members

\* C37: a set-username step leaves the member set of every room as it was; it
\* stores the name cut to MAX_NAME_LEN characters as the sender's display name
\* and leaves the display name of every other connection alone.
C37_SetUsernameKeepsMembers ==
  [][\A s \in Sockets, n \in NameInputs :
       (SetUsername(s, n) \/ SockSetUsername(s, n)) =>
         /\ DOMAIN rooms' = DOMAIN rooms
         /\ \A key \in DOMAIN rooms : rooms'[key].users = rooms[key].users
         /\ userName'[s] = SliceTo(n, MAX_NAME_LEN)
         /\ \A t \in Sockets \ {s} : userName'[t] = userName[t]]_vars

\* ------------------------------------------------- commands of a non-member

\* server.ts: two connections join the rooms; one of them edits, chats and
\* uploads, before it has joined as well as after
NextGuest ==
  \/ \E s \in Editors, id \in RoomIds : JoinRoom(s, id)
       /\ UNCHANGED meshVars
  \/ \E s \in Editors, id \in RoomIds : JoinFileRoom(s, id)
       /\ UNCHANGED meshVars
  \/ \E s \in DeltaSenders, id \in RoomIds, c \in DeltaCode : CodeChange(s, id, c)
       /\ UNCHANGED meshVars
  \/ \E s \in DeltaSenders, id \in RoomIds : LanguageChange(s, id, "python")
       /\ UNCHANGED meshVars
  \/ \E s \in DeltaSenders, id \in RoomIds : ThemeChange(s, id, "light")
       /\ UNCHANGED meshVars
  \/ \E s \in DeltaSenders, id \in RoomIds, m \in TalkInputs : ChatMessage(s, id, m, "code")
       /\ UNCHANGED meshVars
  \/ \E s \in DeltaSenders, id \in RoomIds, f \in DeltaFile : FileUpload(s, id, f)
       /\ UNCHANGED meshVars
  \/ \E s \in DeltaSenders, id \in RoomIds : FileRemove(s, id)
       /\ UNCHANGED meshVars

SpecGuest == Init /\ [][NextGuest]_vars

\* s is not in the member set of the room with this key
NonMember(s, key) == key \notin DOMAIN rooms \/ s \notin rooms[key].users

\* the step changes no room and sends nothing to a connection other than s
Contained(s) == rooms' = rooms /\ \A e \in emitted' : e.to = s

\* C38: a code-change, language-change, theme-change, chat-message,
\* file-upload or file-remove whose sender is not a member of the room it
\* names changes no room and sends nothing to any other connection.
C38_NonMemberCommandContained ==
  [][\A s \in DeltaSenders, id \in RoomIds :
       /\ ((\/ \E c \in DeltaCode : CodeChange(s, id, c)
            \/ LanguageChange(s, id, "python")
            \/ ThemeChange(s, id, "light")
            \/ \E m \in TalkInputs : ChatMessage(s, id, m, "code"))
           /\ NonMember(s, id)) => Contained(s)
       /\ ((\/ \E f \in DeltaFile : FileUpload(s, id, f)
            \/ FileRemove(s, id))
           /\ NonMember(s, roomKey(id, "file"))) => Contained(s)]_vars

\* ------------------------------------------------- signaling to a room key

\* C39: a signaling command reaches at most one connection, whatever its
\* targetId is, and a command whose targetId is the key of a room of the room
\* table reaches no member of that room.
C39_SignalReachesAtMostOne ==
  [][\A s \in Editors, cmd \in SigCommands, data \in SigData :
       Signal(s, cmd, data) =>
         /\ Cardinality({e.to : e \in emitted'}) <= 1
         /\ data.targetId.key \in DOMAIN rooms =>
              \A e \in emitted' : e.to \notin rooms[data.targetId.key].users]_vars

\* ------------------------------------------------- membership processing and answered links

\* client c holds an open link for remote p on which p's offer has been
\* applied: c has sent p no offer, so the remote description is p's offer
RemoteOfferApplied(c, p) ==
  /\ p \in DOMAIN peersRef[c]
  /\ heap[c][peersRef[c][p]].remoteDescription
  /\ ~heap[c][peersRef[c][p]].closed
  /\ offers[c][p] = 0

\* a step of the membership processing of client c: the call-room-data and
\* user-joined-call handlers and their continuations
MembershipStep(c) ==
  \/ OnCallRoomData(c)
  \/ OnUserJoinedCall(c)
  \/ \E t \in tasks[c] :
       /\ t.h \in {"call-room-data", "user-joined-call"}
       /\ ResumeMedia(c, t) \/ ResumeCreateOffer(c, t) \/ ResumeSetLocalOffer(c, t)

\* C40: a step of a client's membership processing leaves every open link on
\* which a remote offer has been applied in the peer table, and open.
C40_MembershipKeepsAnsweredLink ==
  [][\A c \in Clients, p \in Clients :
       (MembershipStep(c) /\ RemoteOfferApplied(c, p)) =>
         /\ p \in DOMAIN peersRef'[c]
         /\ peersRef'[c][p] = peersRef[c][p]
         /\ ~heap'[c][peersRef[c][p]].closed]_vars

====
